---------------------------- MODULE Spec2Model ----------------------------
(***************************************************************************)
(* A model of the 1min-relay gateway.                                      *)
(*                                                                         *)
(* Spec           the model registry (services/model-registry):            *)
(*                getModelData with its in-memory snapshot, the KV cache   *)
(*                and the single in-flight upstream fetch, run by several  *)
(*                concurrent callers on one event loop.                    *)
(* LiveSpec       Spec with the fairness the event loop and the timers     *)
(*                give.                                                    *)
(* ColdBurstSpec  Spec restricted to calls made back to back on a cold     *)
(*                cache.                                                   *)
(* ProcessSpec    processModels applied to bounded entry lists.            *)
(* SendSpec       one call of OneMinApiService.sendChatRequest against an  *)
(*                upstream that answers as it likes.                       *)
(* BuildSpec      one chat request from validateModelAndMessages through   *)
(*                buildChatRequestBody, with image downloads and uploads   *)
(*                that succeed or fail, to the upstream call.              *)
(* Utf8Spec       SimpleUTF8Decoder fed a UTF-8 text in successive reads.  *)
(* RelaySpec      one streaming relay task (OpenAI chat, Responses API or  *)
(*                Anthropic) between an upstream byte stream and the       *)
(*                writer of the output channel.                            *)
(* Each specification leaves the variables of the others at rest.          *)
(*                                                                         *)
(* JavaScript values are tagged records: Null, Str, Arr(items),            *)
(* Obj(fields).  One action is one task of the event loop: the completion  *)
(* of an I/O operation or of a timer together with every promise reaction  *)
(* (microtask) it queues, which run to completion before the next task.    *)
(***************************************************************************)
EXTENDS Integers, Sequences, FiniteSets, TLC

VARIABLES
    now,                \* Date.now()
    hasKV,              \* env.MODEL_CACHE is bound
    memoryCache,        \* module-level memoryCache
    memoryCacheExpiry,  \* module-level memoryCacheExpiry
    inflight,           \* module-level inflight: 0 (null) or the id of a fetch
    fetches,            \* every promise chain built by getModelData, by id
    kv,                 \* the KV entry under KV_KEY
    puts,               \* KV puts issued and not yet completed
    callers,            \* each getModelData call: its position and its result
    ticks               \* clock steps taken

\* One run of processModels
VARIABLES
    pmChat,             \* its argument chatModels
    pmImage,            \* its argument imageModels
    pmOut               \* what it returned (Null before the call)

\* One call of OneMinApiService.sendChatRequest
VARIABLES
    sendPc,             \* where the call is
    sendArgs,           \* its arguments requestBody, isStreaming, apiKey
    sendLog,            \* the fetch() calls it made, with the response to each
    sendOut             \* what it returned or threw

\* One call of OneMinApiService.buildChatRequestBody: a record of its
\* arguments, its locals, the network calls it made and what it returned
VARIABLE build

\* One SimpleUTF8Decoder and the reads fed to it
VARIABLE dec

\* One streaming relay task: its protocol, the upstream stream, its locals,
\* the I/O it is waiting for and the operations it has issued
VARIABLE relay

\* One call of a function of the request path: the function, its
\* arguments and what it returned or threw
VARIABLE fncall

\* The rate limiter of one client id: the clock, the entry of the client in
\* RATE_LIMIT_STORE and the calls of checkRateLimit under way
VARIABLE limiter

regVars == <<now, hasKV, memoryCache, memoryCacheExpiry, inflight, fetches,
             kv, puts, callers, ticks>>
pmVars == <<pmChat, pmImage, pmOut>>
sendVars == <<sendPc, sendArgs, sendLog, sendOut>>

vars == <<regVars, pmVars, sendVars, build, dec, relay, fncall, limiter>>

notReg == <<pmVars, sendVars, build, dec, relay, fncall, limiter>>
notPm == <<regVars, sendVars, build, dec, relay, fncall, limiter>>
notSend == <<regVars, pmVars, build, dec, relay, fncall, limiter>>
notBuild == <<regVars, pmVars, sendVars, dec, relay, fncall, limiter>>
notDec == <<regVars, pmVars, sendVars, build, relay, fncall, limiter>>
notRelay == <<regVars, pmVars, sendVars, build, dec, fncall, limiter>>
notCall == <<regVars, pmVars, sendVars, build, dec, relay, limiter>>
notLimiter == <<regVars, pmVars, sendVars, build, dec, relay, fncall>>

-----------------------------------------------------------------------------
(* Bounds *)

NumCallers == 2
MaxTicks == 1
MaxLen == 2

(* Program constants *)

MEMORY_TTL_MS == 300000
KV_TTL_SECONDS == 3600

TickMs == MEMORY_TTL_MS

Callers == 1..NumCallers

-----------------------------------------------------------------------------
(* JavaScript values *)

Null == [type |-> "null"]
Str(s) == [type |-> "string", s |-> s]
Arr(items) == [type |-> "array", items |-> items]
Obj(fields) == [type |-> "object", fields |-> fields]

IsArray(v) == v.type = "array"
HasField(o, k) == o.type = "object" /\ k \in DOMAIN o.fields
IsArrayField(o, k) == HasField(o, k) /\ IsArray(o.fields[k])

(* Mutant: only chatModelIds is checked *)
isValidCachedDataChatOnly(data) ==
    IF data.type = "null" \/ data.type \notin {"object", "array"}
    THEN FALSE
    ELSE IsArrayField(data, "chatModelIds")

isValidCachedData(data) ==
    IF data.type = "null" \/ data.type \notin {"object", "array"}
    THEN FALSE
    ELSE IsArrayField(data, "chatModelIds") /\ IsArrayField(data, "imageModelIds")

-----------------------------------------------------------------------------
(* Upstream model entries *)

Entry(id, name, features) == [modelId |-> id, name |-> name, features |-> features]

RECURSIVE AddUnseen(_, _, _)
AddUnseen(models, seen, allEntries) ==
    IF models = <<>> THEN [seen |-> seen, allEntries |-> allEntries]
    ELSE LET model == Head(models)
         IN IF model.modelId \notin seen
            THEN AddUnseen(Tail(models), seen \cup {model.modelId},
                           Append(allEntries, model))
            ELSE AddUnseen(Tail(models), seen, allEntries)

MapModelId(models) == [i \in 1..Len(models) |-> models[i].modelId]

RECURSIVE FilterFeature(_, _)
FilterFeature(models, feature) ==
    IF models = <<>> THEN <<>>
    ELSE IF feature \in Head(models).features
         THEN <<Head(models)>> \o FilterFeature(Tail(models), feature)
         ELSE FilterFeature(Tail(models), feature)

(* Mutant: the image entries are merged first, so they win a collision *)
processModelsImageFirst(chatModels, imageModels, t) ==
    LET afterImage == AddUnseen(imageModels, {}, <<>>)
        afterChat == AddUnseen(chatModels, afterImage.seen, afterImage.allEntries)
    IN Obj([chatModelIds |-> Arr(MapModelId(chatModels)),
            imageModelIds |-> Arr(MapModelId(imageModels)),
            visionModelIds |->
                Arr(MapModelId(FilterFeature(chatModels, "CHAT_WITH_IMAGE"))),
            codeInterpreterModelIds |->
                Arr(MapModelId(FilterFeature(chatModels, "CODE_GENERATOR"))),
            entries |-> Arr(afterChat.allEntries),
            fetchedAt |-> t])

processModels(chatModels, imageModels, t) ==
    LET afterChat == AddUnseen(chatModels, {}, <<>>)
        afterImage == AddUnseen(imageModels, afterChat.seen, afterChat.allEntries)
    IN Obj([chatModelIds |-> Arr(MapModelId(chatModels)),
            imageModelIds |-> Arr(MapModelId(imageModels)),
            visionModelIds |->
                Arr(MapModelId(FilterFeature(chatModels, "CHAT_WITH_IMAGE"))),
            codeInterpreterModelIds |->
                Arr(MapModelId(FilterFeature(chatModels, "CODE_GENERATOR"))),
            entries |-> Arr(afterImage.allEntries),
            fetchedAt |-> t])


-----------------------------------------------------------------------------
(* The models endpoint: what a query of fetchModelsFromAPI can be answered *)

ChatCatalogs ==
    { <<Entry("m1", "chat", {"CHAT_WITH_IMAGE"})>>,
      <<Entry("m1", "chat", {"CHAT_WITH_IMAGE"}), Entry("m2", "chat", {"CODE_GENERATOR"})>> }

ImageCatalogs ==
    { <<Entry("m1", "image", {"IMAGE_GENERATOR"}), Entry("m3", "image", {"IMAGE_GENERATOR"})>> }

Catalogs(feature) ==
    IF feature = "UNIFY_CHAT_WITH_AI" THEN ChatCatalogs ELSE ImageCatalogs

HttpResponse(ok, status, body) == [ok |-> ok, status |-> status, body |-> body]

ModelsResponses(feature) ==
    { HttpResponse(TRUE, 200, Obj([models |-> Arr(l)])) : l \in Catalogs(feature) }
    \cup { HttpResponse(FALSE, 500, Null),
           HttpResponse(TRUE, 200, Obj([error |-> Str("no models")])) }

Features == {"UNIFY_CHAT_WITH_AI", "IMAGE_GENERATOR"}

(* A query of fetchModelsFromAPI: pending, fulfilled with the models, or rejected *)
PendingQuery == [st |-> "pending", models |-> <<>>]
FulfilledQuery(models) == [st |-> "ok", models |-> models]
RejectedQuery == [st |-> "failed", models |-> <<>>]

fetchModelsFromAPI(response) ==
    IF ~response.ok THEN RejectedQuery
    ELSE IF ~IsArrayField(response.body, "models") THEN RejectedQuery
    ELSE FulfilledQuery(response.body.fields.models.items)

-----------------------------------------------------------------------------
(* The promise chain fetchAndProcess(env).then(..).catch(..).finally(..)   *)
(*   stage "fetching": Promise.all of the two queries is pending           *)
(*         "then":     it fulfilled, the .then handler runs next           *)
(*         "catch":    it rejected, the .catch handler runs next           *)
(*         "settled":  .finally has run and the chain has settled          *)

NoOutcome == [kind |-> "none", value |-> Null, status |-> 0]
Fulfilled(value) == [kind |-> "ok", value |-> value, status |-> 0]
ApiError(status) == [kind |-> "error", value |-> Null, status |-> status]

NewFetch ==
    [q |-> [f \in Features |-> PendingQuery],
     stage |-> "fetching",
     outcome |-> NoOutcome,
     stale |-> FALSE]

(* Promise.all: rejects on the first rejection, fulfils when both queries have *)
PromiseAll(f) ==
    IF f.stage # "fetching" THEN f.stage
    ELSE IF \E x \in Features : f.q[x].st = "failed" THEN "catch"
    ELSE IF \A x \in Features : f.q[x].st = "ok" THEN "then"
    ELSE "fetching"

fetchAndProcess(f) ==
    processModels(f.q["UNIFY_CHAT_WITH_AI"].models, f.q["IMAGE_GENERATOR"].models, now)

-----------------------------------------------------------------------------
(* The KV namespace MODEL_CACHE: one entry under KV_KEY *)

NoEntry == [present |-> FALSE, json |-> FALSE, value |-> Null, ttl |-> 0]
KvEntry(json, value, ttl) == [present |-> TRUE, json |-> json, value |-> value, ttl |-> ttl]

(* JSON.stringify, and the parse done by get(KV_KEY, "json"): the payload  *)
(* holds strings, numbers, arrays and objects only, which a round trip     *)
(* through JSON text gives back field by field *)
Stringify(value) == [json |-> TRUE, value |-> value]

(* The put issued by fetch p *)
KvPut(p, data) == [p |-> p, text |-> Stringify(data), expirationTtl |-> KV_TTL_SECONDS]

(* What a read of the entry gives: null when absent, the parsed value, or  *)
(* a throw when the text is no JSON *)
ReadThrows == [threw |-> TRUE, value |-> Null]
ReadGives(value) == [threw |-> FALSE, value |-> value]

KvGet(entry) ==
    IF ~entry.present THEN ReadGives(Null)
    ELSE IF ~entry.json THEN ReadThrows
    ELSE ReadGives(entry.value)

(* What another isolate, or an earlier version, may have left under KV_KEY *)
PartialPayload == Obj([chatModelIds |-> Arr(<<"m9">>), imageModelIds |-> Arr(<<>>)])

ForeignEntries ==
    { NoEntry,
      KvEntry(TRUE, Str("model-data"), KV_TTL_SECONDS),
      KvEntry(TRUE, Obj([chatModelIds |-> Arr(<<"m9">>), imageModelIds |-> Str("m3")]),
              KV_TTL_SECONDS),
      KvEntry(TRUE, PartialPayload, KV_TTL_SECONDS) }

-----------------------------------------------------------------------------
(* getModelData callers.  tier: the tier that served the call; p: the      *)
(* fetch awaited; started: this call started p.  The callers are           *)
(* interchangeable, so they call in the order of their numbers. *)

Idle == [pc |-> "idle", tier |-> 0, p |-> 0, started |-> FALSE, result |-> NoOutcome]

(* The module as loaded (lines 15-19), in an environment with or without   *)
(* the MODEL_CACHE binding *)
RegInit ==
    /\ now = 0
    /\ hasKV \in BOOLEAN
    /\ memoryCache = Null
    /\ memoryCacheExpiry = 0
    /\ inflight = 0
    /\ fetches = <<>>
    /\ kv \in (IF hasKV THEN ForeignEntries ELSE {NoEntry})
    /\ puts = {}
    /\ callers = [c \in Callers |-> Idle]
    /\ ticks = 0

(* The variables of a part that a specification does not run *)
RegAtRest == RegInit /\ ~hasKV
PmAtRest == pmChat = <<>> /\ pmImage = <<>> /\ pmOut = Null
SendAtRest == sendPc = "off" /\ sendArgs = <<>> /\ sendLog = <<>> /\ sendOut = <<>>

BuildAtRest == build = <<>>
DecAtRest == dec = <<>>
RelayAtRest == relay = <<>>
CallAtRest == fncall = <<>>
LimiterAtRest == limiter = <<>>

Init == RegInit /\ PmAtRest /\ SendAtRest /\ BuildAtRest /\ DecAtRest /\ RelayAtRest
        /\ CallAtRest /\ LimiterAtRest

-----------------------------------------------------------------------------
(* getModelData, lines 132-171: join the fetch in flight, or start one.    *)
(* fetchAndProcess runs synchronously up to its two fetch() calls, so both *)
(* queries are on the wire when inflight is assigned. *)
JoinOrStart(c) ==
    IF inflight # 0
    THEN /\ callers' = [callers EXCEPT ![c] =
                [@ EXCEPT !.pc = "await", !.tier = 3, !.p = inflight]]
         /\ UNCHANGED <<inflight, fetches>>
    ELSE /\ fetches' = Append(fetches, NewFetch)
         /\ inflight' = Len(fetches) + 1
         /\ callers' = [callers EXCEPT ![c] =
                [@ EXCEPT !.pc = "await", !.tier = 3, !.p = Len(fetches) + 1,
                          !.started = TRUE]]

(* Mutant: the expiry comparison is inverted *)
MemoryHitInverted == memoryCache # Null /\ now > memoryCacheExpiry

(* getModelData, line 114 *)
MemoryHit == memoryCache # Null /\ now < memoryCacheExpiry

(* getModelData, lines 112-121: the call up to its first await *)
Call(c) ==
    /\ callers[c].pc = "idle"
    /\ \A d \in Callers : d < c => callers[d].pc # "idle"
    /\ IF MemoryHit
       THEN /\ callers' = [callers EXCEPT ![c] =
                   [@ EXCEPT !.pc = "done", !.tier = 1, !.result = Fulfilled(memoryCache)]]
            /\ UNCHANGED <<inflight, fetches>>
       ELSE IF hasKV
       THEN /\ callers' = [callers EXCEPT ![c] = [@ EXCEPT !.pc = "kvget"]]
            /\ UNCHANGED <<inflight, fetches>>
       ELSE JoinOrStart(c)
    /\ UNCHANGED <<now, hasKV, memoryCache, memoryCacheExpiry, kv, puts, ticks>>
    /\ UNCHANGED notReg

(* getModelData, lines 121-171: the call resumes with what the KV read gave *)
KvGetResumes(c, read) ==
    IF ~read.threw /\ isValidCachedData(read.value)
    THEN /\ memoryCache' = read.value
         /\ memoryCacheExpiry' = now + MEMORY_TTL_MS
         /\ callers' = [callers EXCEPT ![c] =
                [@ EXCEPT !.pc = "done", !.tier = 2, !.result = Fulfilled(read.value)]]
         /\ UNCHANGED <<inflight, fetches>>
    ELSE /\ JoinOrStart(c)
         /\ UNCHANGED <<memoryCache, memoryCacheExpiry>>

(* env.MODEL_CACHE.get(KV_KEY, "json") resolves with the entry under KV_KEY *)
KvGetGives(c) ==
    /\ callers[c].pc = "kvget"
    /\ KvGetResumes(c, KvGet(kv))
    /\ UNCHANGED <<now, hasKV, kv, puts, ticks>>
    /\ UNCHANGED notReg

(* env.MODEL_CACHE.get(KV_KEY, "json") rejects (the store cannot be read) *)
KvGetThrows(c) ==
    /\ callers[c].pc = "kvget"
    /\ KvGetResumes(c, ReadThrows)
    /\ UNCHANGED <<now, hasKV, kv, puts, ticks>>
    /\ UNCHANGED notReg

(* Mutant: the expiry is not renewed with the snapshot *)
ThenHandlerKeepsExpiry(p, data) ==
    [memoryCache |-> data,
     memoryCacheExpiry |-> memoryCacheExpiry,
     puts |-> IF hasKV THEN {KvPut(p, data)} ELSE {},
     stale |-> FALSE,
     outcome |-> Fulfilled(data)]

(* getModelData, lines 138-151: what the .then handler assigns and returns *)
ThenHandler(p, data) ==
    [memoryCache |-> data,
     memoryCacheExpiry |-> now + MEMORY_TTL_MS,
     puts |-> IF hasKV THEN {KvPut(p, data)} ELSE {},
     stale |-> FALSE,
     outcome |-> Fulfilled(data)]

(* Mutant: the stale snapshot is returned without extending its expiry *)
CatchHandlerNoExtend ==
    IF memoryCache # Null
    THEN [memoryCache |-> memoryCache,
          memoryCacheExpiry |-> memoryCacheExpiry,
          puts |-> {},
          stale |-> TRUE,
          outcome |-> Fulfilled(memoryCache)]
    ELSE [memoryCache |-> memoryCache,
          memoryCacheExpiry |-> memoryCacheExpiry,
          puts |-> {},
          stale |-> FALSE,
          outcome |-> ApiError(503)]

(* Mutant: the .catch handler throws whether or not a snapshot is held *)
CatchHandlerAlwaysThrows ==
    [memoryCache |-> memoryCache,
     memoryCacheExpiry |-> memoryCacheExpiry,
     puts |-> {},
     stale |-> FALSE,
     outcome |-> ApiError(503)]

(* getModelData, lines 152-166: what the .catch handler assigns and returns *)
(* or throws *)
CatchHandler ==
    IF memoryCache # Null
    THEN [memoryCache |-> memoryCache,
          memoryCacheExpiry |-> now + MEMORY_TTL_MS,
          puts |-> {},
          stale |-> TRUE,
          outcome |-> Fulfilled(memoryCache)]
    ELSE [memoryCache |-> memoryCache,
          memoryCacheExpiry |-> memoryCacheExpiry,
          puts |-> {},
          stale |-> FALSE,
          outcome |-> ApiError(503)]

(* Mutant: the .finally handler leaves the guard as it is *)
FinallyHandlerKeepsGuard == inflight

(* getModelData, lines 167-169: what the .finally handler assigns *)
FinallyHandler == 0

(* fetchAndProcess's own rejection, before .catch has handled it *)
Rejection == [kind |-> "error", value |-> Null, status |-> 0]

(* Mutant: inflight holds fetchAndProcess's promise and only the caller    *)
(* that started the fetch returns the handled chain *)
AwaitedUnhandled(c, chain, raw) == IF callers[c].started THEN chain ELSE raw

(* getModelData, lines 133-135 and 171: what a caller that returned        *)
(* inflight resolves with: the outcome of the whole chain (raw is the      *)
(* outcome of fetchAndProcess alone) *)
Awaited(c, chain, raw) == chain

(* A query of fetch p settles as q.  When that settles Promise.all, the    *)
(* reactions run in order: fetchAndProcess's continuation, .then or        *)
(* .catch, .finally, and the continuation of every caller awaiting p. *)
QuerySettles(p, feature, q) ==
    LET f == [fetches[p] EXCEPT !.q[feature] = q]
        all == PromiseAll(f)
    IN IF fetches[p].stage # "fetching" \/ all = "fetching"
       THEN /\ fetches' = [fetches EXCEPT ![p] = f]
            /\ UNCHANGED <<memoryCache, memoryCacheExpiry, inflight, puts, callers>>
       ELSE LET h == IF all = "then" THEN ThenHandler(p, fetchAndProcess(f))
                     ELSE CatchHandler
                raw == IF all = "then" THEN Fulfilled(fetchAndProcess(f))
                       ELSE Rejection
            IN /\ memoryCache' = h.memoryCache
               /\ memoryCacheExpiry' = h.memoryCacheExpiry
               /\ puts' = puts \cup h.puts
               /\ inflight' = FinallyHandler
               /\ fetches' = [fetches EXCEPT ![p] =
                      [f EXCEPT !.stage = "settled", !.stale = h.stale,
                                !.outcome = h.outcome]]
               /\ callers' = [c \in Callers |->
                      IF callers[c].pc = "await" /\ callers[c].p = p
                      THEN [callers[c] EXCEPT !.pc = "done",
                                               !.result = Awaited(c, h.outcome, raw)]
                      ELSE callers[c]]

(* fetchModelsFromAPI, lines 77-93: the models endpoint answers a query *)
QueryAnswered(p, feature) ==
    /\ fetches[p].q[feature].st = "pending"
    /\ \E response \in ModelsResponses(feature) :
           QuerySettles(p, feature, fetchModelsFromAPI(response))
    /\ UNCHANGED <<now, hasKV, kv, ticks>>
    /\ UNCHANGED notReg

(* fetchModelsFromAPI, line 77: fetch() rejects (no connection) *)
QueryNetworkError(p, feature) ==
    /\ fetches[p].q[feature].st = "pending"
    /\ QuerySettles(p, feature, RejectedQuery)
    /\ UNCHANGED <<now, hasKV, kv, ticks>>
    /\ UNCHANGED notReg

(* Mutant: no timer is armed *)
QueryTimeoutNever(p, feature) ==
    /\ FALSE
    /\ UNCHANGED vars

(* fetchModelsFromAPI, lines 73-74: the timer fires and controller.abort() *)
(* rejects the pending fetch *)
QueryTimeout(p, feature) ==
    /\ fetches[p].q[feature].st = "pending"
    /\ QuerySettles(p, feature, RejectedQuery)
    /\ UNCHANGED <<now, hasKV, kv, ticks>>
    /\ UNCHANGED notReg

(* getModelData, lines 145-147: the put reaches the store *)
KvPutStored(w) ==
    /\ w \in puts
    /\ kv' = KvEntry(w.text.json, w.text.value, w.expirationTtl)
    /\ puts' = puts \ {w}
    /\ UNCHANGED <<now, hasKV, memoryCache, memoryCacheExpiry, inflight, fetches,
                   callers, ticks>>
    /\ UNCHANGED notReg

(* getModelData, line 147: the put rejects, .catch logs it *)
KvPutFailed(w) ==
    /\ w \in puts
    /\ puts' = puts \ {w}
    /\ UNCHANGED <<now, hasKV, memoryCache, memoryCacheExpiry, inflight, fetches,
                   kv, callers, ticks>>
    /\ UNCHANGED notReg

(* The store drops the entry when its expirationTtl has run out *)
KvExpired ==
    /\ kv.present
    /\ kv' = NoEntry
    /\ UNCHANGED <<now, hasKV, memoryCache, memoryCacheExpiry, inflight, fetches,
                   puts, callers, ticks>>
    /\ UNCHANGED notReg

(* Time passes *)
Tick ==
    /\ ticks < MaxTicks
    /\ ticks' = ticks + 1
    /\ now' = now + TickMs
    /\ UNCHANGED <<hasKV, memoryCache, memoryCacheExpiry, inflight, fetches, kv,
                   puts, callers>>
    /\ UNCHANGED notReg

Next ==
    \/ \E c \in Callers : Call(c)
    \/ \E c \in Callers : KvGetGives(c)
    \/ \E c \in Callers : KvGetThrows(c)
    \/ \E p \in 1..Len(fetches), f \in Features : QueryAnswered(p, f)
    \/ \E p \in 1..Len(fetches), f \in Features : QueryNetworkError(p, f)
    \/ \E p \in 1..Len(fetches), f \in Features : QueryTimeout(p, f)
    \/ \E w \in puts : KvPutStored(w)
    \/ \E w \in puts : KvPutFailed(w)
    \/ KvExpired
    \/ Tick

Spec == Init /\ [][Next]_vars

(* The event loop runs every task that is ready: a KV read settles, and    *)
(* the abort timer of a pending query fires.  Nothing makes the models     *)
(* endpoint answer. *)
LiveSpec ==
    /\ Init
    /\ [][Next]_vars
    /\ WF_vars(\E c \in Callers : KvGetGives(c) \/ KvGetThrows(c))
    /\ WF_vars(\E p \in 1..Len(fetches), f \in Features : QueryTimeout(p, f))

AllCalled == \A c \in Callers : callers[c].pc # "idle"

(* The calls are all made in one task, before anything else happens, with  *)
(* no snapshot in memory and no valid payload under KV_KEY *)
ColdBurstInit ==
    /\ Init
    /\ ~(kv.present /\ kv.json /\ IsArrayField(kv.value, "chatModelIds")
                    /\ IsArrayField(kv.value, "imageModelIds"))

ColdBurstNext ==
    \/ \E c \in Callers : Call(c)
    \/ \E c \in Callers : AllCalled /\ KvGetGives(c)
    \/ \E c \in Callers : AllCalled /\ KvGetThrows(c)
    \/ \E p \in 1..Len(fetches), f \in Features : AllCalled /\ QueryAnswered(p, f)
    \/ \E p \in 1..Len(fetches), f \in Features : AllCalled /\ QueryNetworkError(p, f)
    \/ \E p \in 1..Len(fetches), f \in Features : AllCalled /\ QueryTimeout(p, f)
    \/ \E w \in puts : AllCalled /\ KvPutStored(w)
    \/ \E w \in puts : AllCalled /\ KvPutFailed(w)
    \/ AllCalled /\ KvExpired
    \/ AllCalled /\ Tick

ColdBurstSpec == ColdBurstInit /\ [][ColdBurstNext]_vars

-----------------------------------------------------------------------------
(* Model registry: claims *)

FetchIds == 1..Len(fetches)
Pending(p) == {f \in Features : fetches[p].q[f].st = "pending"}
Awaiting(p) == {c \in Callers : callers[c].pc = "await" /\ callers[c].p = p}
FiveMinutesMs == 5 * 60 * 1000
OneHourSeconds == 60 * 60

(* C1: at every moment at most one upstream fetch (a chat + image query    *)
(* pair) has a query in flight. *)
C1_AtMostOneFetchInFlight ==
    Cardinality({p \in FetchIds : Pending(p) # {}}) <= 1

(* What does hold: at most one promise chain is unsettled, and it is the   *)
(* one inflight names. *)
SingleChainPending ==
    /\ Cardinality({p \in FetchIds : fetches[p].stage = "fetching"}) <= 1
    /\ \A p \in FetchIds : fetches[p].stage = "fetching" <=> inflight = p
    /\ inflight \in FetchIds \cup {0}

(* C2: calls made concurrently on a cold cache (no snapshot, no valid KV   *)
(* payload) issue exactly one fetch pair in total: never a second one, and *)
(* one once every call has resolved. *)
C2_ColdBurstOneFetchPair ==
    /\ Len(fetches) <= 1
    /\ (\A c \in Callers : callers[c].pc = "done") => Len(fetches) = 1

(* C3: a caller that reached tier 3 waits for the fetch it joined or       *)
(* started and resolves with that fetch's outcome; all callers of one      *)
(* fetch, the one that started it included, resolve alike. *)
C3_WaitersShareOutcome ==
    /\ \A c \in Callers : callers[c].tier = 3 =>
          /\ callers[c].p \in FetchIds
          /\ \/ /\ callers[c].pc = "await"
                /\ fetches[callers[c].p].stage = "fetching"
             \/ /\ callers[c].pc = "done"
                /\ fetches[callers[c].p].stage = "settled"
                /\ callers[c].result = fetches[callers[c].p].outcome
                /\ callers[c].result.kind \in {"ok", "error"}
    /\ \A c, d \in Callers :
          (callers[c].tier = 3 /\ callers[d].tier = 3 /\ callers[c].p = callers[d].p
             /\ callers[c].pc = "done" /\ callers[d].pc = "done")
          => callers[c].result = callers[d].result

C3_Witness ==
    \E c, d \in Callers :
       /\ c # d
       /\ callers[c].started /\ ~callers[d].started
       /\ callers[c].tier = 3 /\ callers[d].tier = 3
       /\ callers[c].p = callers[d].p
       /\ callers[c].pc = "done" /\ callers[d].pc = "done"
       /\ callers[d].result.kind = "error"

(* A step in which fetch p settles because a query of it was rejected *)
FailureStep(p) ==
    /\ fetches[p].stage = "fetching"
    /\ fetches'[p].stage = "settled"
    /\ \E f \in Features : fetches'[p].q[f].st = "failed"

(* C4: when the upstream fetch fails, a snapshot in memory (expired or     *)
(* not) is returned and its expiry becomes 5 minutes after the failure;    *)
(* with no snapshot the call fails with status 503. *)
C4_UpstreamFailureFallback ==
    [][\A p \in FetchIds : FailureStep(p) =>
          /\ IF memoryCache # Null
             THEN /\ fetches'[p].outcome = Fulfilled(memoryCache)
                  /\ memoryCache' = memoryCache
                  /\ memoryCacheExpiry' = now + FiveMinutesMs
             ELSE /\ fetches'[p].outcome.kind = "error"
                  /\ fetches'[p].outcome.status = 503
                  /\ memoryCache' = Null
          /\ \A c \in Awaiting(p) :
                /\ callers'[c].pc = "done"
                /\ callers'[c].result = fetches'[p].outcome]_vars

C4_Witness ==
    \E p \in FetchIds, c \in Callers :
       /\ fetches[p].stale
       /\ ticks >= 1
       /\ callers[c].pc = "done" /\ callers[c].tier = 3 /\ callers[c].p = p
       /\ callers[c].result = Fulfilled(memoryCache)
       /\ memoryCacheExpiry = now + FiveMinutesMs

(* C5: a call made while the snapshot is present and now < expiry returns  *)
(* the snapshot at once: no KV read is issued and no fetch is started. *)
C5_MemoryTierHit ==
    [][\A c \in Callers :
          (/\ callers[c].pc = "idle" /\ callers'[c].pc # "idle"
           /\ memoryCache # Null /\ now < memoryCacheExpiry)
          => /\ callers'[c].pc = "done"
             /\ callers'[c].result = Fulfilled(memoryCache)
             /\ fetches' = fetches
             /\ inflight' = inflight
             /\ memoryCache' = memoryCache]_vars

C5_Witness ==
    \E c \in Callers :
       /\ callers[c].pc = "done" /\ callers[c].tier = 1
       /\ callers[c].result = Fulfilled(memoryCache)
       /\ now < memoryCacheExpiry
       /\ \E d \in Callers : callers[d].tier # 1 /\ callers[d].pc = "done"

(* The entry under KV_KEY is JSON of an object whose chatModelIds and      *)
(* imageModelIds are both arrays *)
HoldsBothArrays(entry) ==
    /\ entry.present /\ entry.json
    /\ entry.value.type = "object"
    /\ \A k \in {"chatModelIds", "imageModelIds"} :
          k \in DOMAIN entry.value.fields /\ entry.value.fields[k].type = "array"

(* The call of c falls through to tier 3: it joins the fetch in flight or  *)
(* starts one, and the snapshot is left alone *)
FallsThrough(c) ==
    /\ callers'[c].pc = "await" /\ callers'[c].tier = 3
    /\ memoryCache' = memoryCache /\ memoryCacheExpiry' = memoryCacheExpiry
    /\ IF inflight # 0
       THEN callers'[c].p = inflight /\ fetches' = fetches /\ inflight' = inflight
       ELSE /\ Len(fetches') = Len(fetches) + 1
            /\ inflight' = Len(fetches')
            /\ callers'[c].p = Len(fetches')

(* C6: on a memory miss, a KV payload with both arrays is returned, made   *)
(* the snapshot with expiry 5 minutes ahead, and no fetch is started; any  *)
(* other payload, or a read error, falls through to tier 3. *)
C6_KvTier ==
    [][\A c \in Callers :
          /\ (KvGetGives(c) /\ HoldsBothArrays(kv)) =>
                /\ callers'[c].pc = "done"
                /\ callers'[c].result = Fulfilled(kv.value)
                /\ memoryCache' = kv.value
                /\ memoryCacheExpiry' = now + FiveMinutesMs
                /\ fetches' = fetches /\ inflight' = inflight
          /\ ((KvGetGives(c) /\ ~HoldsBothArrays(kv)) \/ KvGetThrows(c)) =>
                FallsThrough(c)]_vars

C6_Witness ==
    \E c \in Callers :
       /\ callers[c].pc = "done" /\ callers[c].tier = 2
       /\ callers[c].result = Fulfilled(memoryCache)
       /\ memoryCacheExpiry = now + FiveMinutesMs
       /\ fetches = <<>>

(* A step in which fetch p settles with both queries fulfilled *)
SuccessStep(p) ==
    /\ fetches[p].stage = "fetching"
    /\ fetches'[p].stage = "settled"
    /\ \A f \in Features : fetches'[p].q[f].st = "ok"

(* C7: a successful fetch makes the fetched data the snapshot, with expiry *)
(* 5 minutes ahead, and issues a KV put with TTL 1 hour that nobody waits  *)
(* for: the callers resolve with the data in that step; a put that fails   *)
(* changes neither the snapshot nor what any caller received. *)
C7_SuccessAndPut ==
    /\ [][\A p \in FetchIds : SuccessStep(p) =>
            /\ fetches'[p].outcome.kind = "ok"
            /\ fetches'[p].outcome.value =
                  processModels(fetches'[p].q["UNIFY_CHAT_WITH_AI"].models,
                                fetches'[p].q["IMAGE_GENERATOR"].models, now)
            /\ memoryCache' = fetches'[p].outcome.value
            /\ memoryCacheExpiry' = now + FiveMinutesMs
            /\ hasKV => \E w \in puts' \ puts :
                          /\ w.text = Stringify(fetches'[p].outcome.value)
                          /\ w.expirationTtl = OneHourSeconds
            /\ \A c \in Awaiting(p) :
                  /\ callers'[c].pc = "done"
                  /\ callers'[c].result = fetches'[p].outcome]_vars
    /\ [][(puts' # puts /\ puts' \subseteq puts /\ kv' = kv) =>
            /\ memoryCache' = memoryCache
            /\ memoryCacheExpiry' = memoryCacheExpiry
            /\ callers' = callers
            /\ fetches' = fetches]_vars

C7_Witness ==
    \E p \in FetchIds, c \in Callers :
       /\ hasKV /\ puts = {} /\ kv.present /\ kv.value.type = "string"
       /\ fetches[p].stage = "settled" /\ fetches[p].outcome.kind = "ok"
       /\ ~fetches[p].stale
       /\ callers[c].pc = "done" /\ callers[c].p = p
       /\ callers[c].result = fetches[p].outcome
       /\ memoryCache = fetches[p].outcome.value

-----------------------------------------------------------------------------
(* processModels on its own *)

ModelIds == {"m1", "m2", "m3"}
ChatEntries == {Entry(id, "chat", {"CHAT_WITH_IMAGE"}) : id \in ModelIds}
ImageEntries == {Entry(id, "image", {"IMAGE_GENERATOR"}) : id \in ModelIds}

SeqsUpTo(S, n) == UNION {[1..k -> S] : k \in 0..n}

ProcessInit ==
    /\ pmChat \in SeqsUpTo(ChatEntries, MaxLen)
    /\ pmImage \in SeqsUpTo(ImageEntries, MaxLen)
    /\ pmOut = Null
    /\ RegAtRest /\ LimiterAtRest /\ SendAtRest /\ BuildAtRest /\ DecAtRest /\ RelayAtRest /\ CallAtRest

(* fetchAndProcess, line 105: the call of processModels *)
RunProcessModels ==
    /\ pmOut = Null
    /\ pmOut' = processModels(pmChat, pmImage, now)
    /\ UNCHANGED <<pmChat, pmImage>>
    /\ UNCHANGED notPm

ProcessNext == RunProcessModels

ProcessSpec == ProcessInit /\ [][ProcessNext]_vars

IdsOf(models) == {models[i].modelId : i \in 1..Len(models)}

(* C9: the merged entries hold every modelId of either list exactly once,  *)
(* and the entry kept for a modelId of the chat list is a chat entry. *)
C9_MergedEntriesDeduplicated ==
    pmOut # Null =>
       LET entries == pmOut.fields.entries.items
       IN /\ \A i, j \in 1..Len(entries) :
                entries[i].modelId = entries[j].modelId => i = j
          /\ IdsOf(entries) = IdsOf(pmChat) \cup IdsOf(pmImage)
          /\ \A i \in 1..Len(entries) :
                /\ entries[i].modelId \in IdsOf(pmChat) => entries[i].name = "chat"
                /\ entries[i].modelId \notin IdsOf(pmChat) => entries[i].name = "image"

C9_Witness ==
    /\ pmChat = <<Entry("m1", "chat", {"CHAT_WITH_IMAGE"})>>
    /\ pmImage = <<Entry("m1", "image", {"IMAGE_GENERATOR"}),
                   Entry("m2", "image", {"IMAGE_GENERATOR"})>>
    /\ pmOut # Null
    /\ pmOut.fields.entries.items = <<Entry("m1", "chat", {"CHAT_WITH_IMAGE"}),
                                      Entry("m2", "image", {"IMAGE_GENERATOR"})>>

-----------------------------------------------------------------------------
(* OneMinApiService.sendChatRequest *)

ONE_MIN_API_URL == "https://upstream/api/features"
ONE_MIN_CONVERSATION_API_STREAMING_URL == "https://upstream/api/features?isStreaming=true"

WebSearchFields == {"webSearch", "numOfSite", "maxWord"}

(* The promptObjects buildChatRequestBody emits *)
PromptObjects ==
    { [prompt |-> "Human: hi", isMixed |-> FALSE, webSearch |-> FALSE],
      [prompt |-> "Human: hi", isMixed |-> FALSE, webSearch |-> TRUE,
       numOfSite |-> 1, maxWord |-> 500],
      [prompt |-> "Human: hi", isMixed |-> FALSE, imageList |-> <<"asset/1">>],
      [prompt |-> "Human: hi", isMixed |-> FALSE, imageList |-> <<"asset/1">>,
       webSearch |-> TRUE, numOfSite |-> 1, maxWord |-> 500] }

RequestBodies ==
    { [type |-> IF "imageList" \in DOMAIN po THEN "CHAT_WITH_IMAGE" ELSE "CHAT_WITH_AI",
       model |-> "gpt-4o", promptObject |-> po] : po \in PromptObjects }
    \cup { [type |-> "CHAT_WITH_AI", model |-> "gpt-4o"] }

(* requestBody.promptObject?.webSearch is truthy *)
WantsWebSearch(requestBody) ==
    /\ "promptObject" \in DOMAIN requestBody
    /\ "webSearch" \in DOMAIN requestBody.promptObject
    /\ requestBody.promptObject.webSearch = TRUE

Without(object, keys) == [k \in DOMAIN object \ keys |-> object[k]]

(* Mutant: only webSearch is deleted *)
createFallbackRequestBodyKeepsLimits(originalRequestBody) ==
    IF "promptObject" \in DOMAIN originalRequestBody
    THEN [originalRequestBody EXCEPT !.promptObject = Without(@, {"webSearch"})]
    ELSE originalRequestBody

(* The deep copy through JSON gives back the strings, numbers, booleans    *)
(* and arrays of the body as they are *)
createFallbackRequestBody(originalRequestBody) ==
    IF "promptObject" \in DOMAIN originalRequestBody
    THEN [originalRequestBody EXCEPT !.promptObject = Without(@, WebSearchFields)]
    ELSE originalRequestBody

SetHeader(headers, name, value) ==
    [h \in DOMAIN headers \cup {name} |-> IF h = name THEN value ELSE headers[h]]

(* sendChatRequest, lines 59-70 *)
ApiUrl(isStreaming) ==
    IF isStreaming THEN ONE_MIN_CONVERSATION_API_STREAMING_URL ELSE ONE_MIN_API_URL

RequestHeaders(apiKey) ==
    IF apiKey # ""
    THEN SetHeader(("Content-Type" :> "application/json"), "API-KEY", apiKey)
    ELSE ("Content-Type" :> "application/json")

Post(url, headers, body) == [url |-> url, method |-> "POST", headers |-> headers, body |-> body]

(* What the upstream may answer *)
HttpOk(response) == response.status >= 200 /\ response.status <= 299

UpstreamResponses ==
    { [status |-> 200, statusText |-> "OK",
       headers |-> ("Content-Type" :> "application/json"), body |-> b] :
          b \in {"answer-1", "answer-2"} }
    \cup { [status |-> 400, statusText |-> "Bad Request",
            headers |-> ("Content-Type" :> "application/json"), body |-> "bad-request"],
           [status |-> 500, statusText |-> "Internal Server Error",
            headers |-> ("Content-Type" :> "text/plain"), body |-> "server-error"] }

NoResponse == [status |-> 0, statusText |-> "", headers |-> <<>>, body |-> ""]

Returned(response) == [kind |-> "returned", response |-> response, message |-> <<>>]
(* new Error(`1min.ai API error: ${status} ${statusText}`) *)
ThrownApiError(response) ==
    [kind |-> "thrown", response |-> NoResponse,
     message |-> <<"1min.ai API error:", response.status, response.statusText>>]
(* fetch() itself rejected: the catch block logs and rethrows *)
ThrownNetworkError ==
    [kind |-> "thrown", response |-> NoResponse, message |-> <<"fetch failed">>]

SendInit ==
    /\ sendPc = "call"
    /\ sendArgs \in [requestBody : RequestBodies, isStreaming : BOOLEAN,
                     apiKey : {"", "sk-1"}]
    /\ sendLog = <<>>
    /\ sendOut = <<>>
    /\ RegAtRest /\ LimiterAtRest /\ PmAtRest /\ BuildAtRest /\ DecAtRest /\ RelayAtRest /\ CallAtRest

(* sendChatRequest, lines 58-77: up to the first await *)
SendFirst ==
    /\ sendPc = "call"
    /\ sendLog' = <<[request |-> Post(ApiUrl(sendArgs.isStreaming),
                                      RequestHeaders(sendArgs.apiKey),
                                      sendArgs.requestBody),
                     response |-> NoResponse]>>
    /\ sendPc' = "first"
    /\ UNCHANGED <<sendArgs, sendOut>>
    /\ UNCHANGED notSend

(* sendChatRequest, lines 79-115: the first fetch resolves *)
FirstAnswered(response) ==
    /\ sendPc = "first"
    /\ LET answered == [sendLog EXCEPT ![1].response = response]
       IN IF HttpOk(response)
          THEN /\ sendLog' = answered
               /\ sendPc' = "done"
               /\ sendOut' = Returned(response)
          ELSE IF response.status = 400 /\ WantsWebSearch(sendArgs.requestBody)
          THEN /\ sendLog' = Append(answered,
                      [request |-> Post(ApiUrl(sendArgs.isStreaming),
                                        RequestHeaders(sendArgs.apiKey),
                                        createFallbackRequestBody(sendArgs.requestBody)),
                       response |-> NoResponse])
               /\ sendPc' = "retry"
               /\ UNCHANGED sendOut
          ELSE /\ sendLog' = answered
               /\ sendPc' = "done"
               /\ sendOut' = ThrownApiError(response)
    /\ UNCHANGED sendArgs
    /\ UNCHANGED notSend

(* sendChatRequest, lines 98-112: the fallback fetch resolves.  The error  *)
(* thrown at line 112 is built from the first response. *)
RetryAnswered(response) ==
    /\ sendPc = "retry"
    /\ sendLog' = [sendLog EXCEPT ![2].response = response]
    /\ sendPc' = "done"
    /\ IF HttpOk(response)
       THEN sendOut' = Returned([status |-> response.status,
                                 statusText |-> response.statusText,
                                 headers |-> SetHeader(response.headers,
                                                       "X-WebSearch-Degraded", "true"),
                                 body |-> response.body])
       ELSE sendOut' = ThrownApiError(sendLog[1].response)
    /\ UNCHANGED sendArgs
    /\ UNCHANGED notSend

(* sendChatRequest, lines 116-119: a fetch rejects *)
FetchRejects ==
    /\ sendPc \in {"first", "retry"}
    /\ sendPc' = "done"
    /\ sendOut' = ThrownNetworkError
    /\ UNCHANGED <<sendArgs, sendLog>>
    /\ UNCHANGED notSend

SendNext ==
    \/ SendFirst
    \/ \E response \in UpstreamResponses : FirstAnswered(response)
    \/ \E response \in UpstreamResponses : RetryAnswered(response)
    \/ FetchRejects

SendSpec == SendInit /\ [][SendNext]_vars

(* C10: a 400 answer to a payload with promptObject.webSearch = true is    *)
(* followed by exactly one retry, to the same URL with the same headers,   *)
(* whose body is the payload without webSearch, numOfSite and maxWord and  *)
(* is otherwise equal; a 2xx answer to the retry is returned, body and     *)
(* status, with the header X-WebSearch-Degraded: true added.  No other     *)
(* call is retried. *)
C10_WebSearchDegradation ==
    /\ Len(sendLog) <= 2
    /\ Len(sendLog) = 2 <=>
          /\ sendLog # <<>>
          /\ sendLog[1].response.status = 400
          /\ "promptObject" \in DOMAIN sendArgs.requestBody
          /\ "webSearch" \in DOMAIN sendArgs.requestBody.promptObject
          /\ sendArgs.requestBody.promptObject.webSearch = TRUE
    /\ Len(sendLog) = 2 =>
          LET first == sendLog[1].request
              retry == sendLog[2].request
              answer == sendLog[2].response
          IN /\ retry.url = first.url
             /\ retry.method = first.method
             /\ retry.headers = first.headers
             /\ DOMAIN retry.body = DOMAIN first.body
             /\ \A k \in DOMAIN first.body \ {"promptObject"} : retry.body[k] = first.body[k]
             /\ DOMAIN retry.body.promptObject =
                   DOMAIN first.body.promptObject \ {"webSearch", "numOfSite", "maxWord"}
             /\ \A k \in DOMAIN retry.body.promptObject :
                   retry.body.promptObject[k] = first.body.promptObject[k]
             /\ (answer.status >= 200 /\ answer.status <= 299) =>
                   /\ sendPc = "done"
                   /\ sendOut.kind = "returned"
                   /\ sendOut.response.body = answer.body
                   /\ sendOut.response.status = answer.status
                   /\ DOMAIN sendOut.response.headers =
                         DOMAIN answer.headers \cup {"X-WebSearch-Degraded"}
                   /\ sendOut.response.headers["X-WebSearch-Degraded"] = "true"
                   /\ \A h \in DOMAIN answer.headers :
                         sendOut.response.headers[h] = answer.headers[h]

C10_Witness ==
    /\ sendPc = "done"
    /\ Len(sendLog) = 2
    /\ sendLog[1].response.status = 400
    /\ sendLog[2].response.status = 200
    /\ sendOut.kind = "returned"
    /\ sendOut.response.body = sendLog[2].response.body
    /\ sendOut.response.headers["X-WebSearch-Degraded"] = "true"
    /\ "imageList" \in DOMAIN sendLog[2].request.body.promptObject

(* What the raised error reports *)
Reports(response) == <<"1min.ai API error:", response.status, response.statusText>>

(* Holds: a non-2xx answer that is not a 400 to a web-search payload       *)
(* raises at once, with that answer's status and status text, and nothing  *)
(* is sent again; a non-2xx answer to the retry raises too. *)
RaisesWithoutRetry ==
    sendPc = "done" /\ sendLog[1].response # NoResponse =>
       LET first == sendLog[1].response
       IN /\ (~(first.status >= 200 /\ first.status <= 299) /\ Len(sendLog) = 1) =>
                /\ sendOut.kind = "thrown"
                /\ sendOut.message = Reports(first)
          /\ (Len(sendLog) = 2 /\ sendLog[2].response # NoResponse
                /\ ~(sendLog[2].response.status >= 200 /\ sendLog[2].response.status <= 299)) =>
                sendOut.kind = "thrown"

(* C11: a non-2xx answer that is not a 400 to a web-search payload raises  *)
(* without a retry, a non-2xx answer to the retry raises as well, and the  *)
(* error raised reports the status and status text of the response that    *)
(* failed: the last one received. *)
C11_ErrorCarriesFailedStatus ==
    /\ RaisesWithoutRetry
    /\ (sendPc = "done" /\ sendOut.kind = "thrown" /\ sendOut # ThrownNetworkError) =>
          sendOut.message = Reports(sendLog[Len(sendLog)].response)

-----------------------------------------------------------------------------
(* OneMinApiService.buildChatRequestBody *)

MaxParts == 2

(* Message content: a string, or an array of text and image_url items *)
TextItem(text) == [type |-> "text", text |-> text, url |-> ""]
ImageItem(url) == [type |-> "image_url", text |-> "", url |-> url]
StringContent(text) == [isArray |-> FALSE, text |-> text, items |-> <<>>]
ArrayContent(items) == [isArray |-> TRUE, text |-> "", items |-> items]
Message(role, content) == [role |-> role, content |-> content]

(* item.type === 'image_url' && item.image_url?.url *)
IsImagePart(item) == item.type = "image_url" /\ item.url # ""

(* The image parts in the order the two nested loops meet them *)
RECURSIVE ImageUrlsOf(_)
ImageUrlsOf(items) ==
    IF items = <<>> THEN <<>>
    ELSE (IF IsImagePart(Head(items)) THEN <<Head(items).url>> ELSE <<>>)
         \o ImageUrlsOf(Tail(items))

RECURSIVE ImageParts(_)
ImageParts(messages) ==
    IF messages = <<>> THEN <<>>
    ELSE (IF Head(messages).content.isArray
          THEN ImageUrlsOf(Head(messages).content.items) ELSE <<>>)
         \o ImageParts(Tail(messages))

(* extractTextFromContent: a string is a sequence of pieces; the text      *)
(* parts of an array are joined by a newline *)
RECURSIVE JoinTexts(_, _)
JoinTexts(items, first) ==
    IF items = <<>> THEN <<>>
    ELSE IF Head(items).type = "text" /\ Head(items).text # ""
         THEN (IF first THEN <<>> ELSE <<"\n">>) \o <<Head(items).text>>
              \o JoinTexts(Tail(items), FALSE)
         ELSE JoinTexts(Tail(items), first)

extractTextFromContent(content) ==
    IF content.isArray THEN JoinTexts(content.items, TRUE)
    ELSE IF content.text = "" THEN <<>> ELSE <<content.text>>

(* formatConversationHistory, lines 30-41: the loop over the messages *)
RECURSIVE FormatMessages(_)
FormatMessages(messages) ==
    IF messages = <<>> THEN <<>>
    ELSE LET m == Head(messages)
             text == extractTextFromContent(m.content)
         IN (CASE m.role = "system" -> <<"System: ">> \o text \o <<"\n\n">>
               [] m.role = "user" -> <<"Human: ">> \o text \o <<"\n\n">>
               [] m.role = "assistant" -> <<"Assistant: ">> \o text \o <<"\n\n">>
               [] OTHER -> <<>>)
            \o FormatMessages(Tail(messages))

(* Mutant: the new input is put first *)
formatConversationHistoryInputFirst(messages, newInput) ==
    (IF newInput # "" THEN <<"Human: ", newInput, "\n\n">> ELSE <<>>)
    \o FormatMessages(messages)

(* Lines 27-49 *)
formatConversationHistory(messages, newInput) ==
    FormatMessages(messages)
    \o (IF newInput # "" THEN <<"Human: ", newInput, "\n\n">> ELSE <<>>)

(* utils/image *)
VisionSupportedModels == {"gpt-4o"}
isVisionSupportedModel(model) == model \in VisionSupportedModels
(* The asset path the upload of an image answers with *)
AssetPath(url) == <<"asset", url>>

Undefined == [undefined |-> TRUE]
WebSearchConfigs == {Undefined, [webSearch |-> TRUE, numOfSite |-> 3, maxWord |-> 500]}

BuildReturned(body) == [kind |-> "returned", body |-> body, message |-> <<>>]
BuildThrown(message) == [kind |-> "thrown", body |-> <<>>, message |-> message]
NoPayload == [kind |-> "none", body |-> <<>>, message |-> <<>>]

(* Mutant: the flag allImagesUploaded is not looked at *)
UsesImagePayloadPartial(b) == b.hasImageRequests /\ Len(b.imagePaths) > 0

(* buildChatRequestBody, line 206 *)
UsesImagePayload(b) ==
    b.hasImageRequests /\ b.allImagesUploaded /\ Len(b.imagePaths) > 0

(* buildChatRequestBody, lines 195-243 *)
ChatRequestBody(b) ==
    LET formattedHistory == formatConversationHistory(b.messages, "")
        config == b.webSearchConfig
    IN IF UsesImagePayload(b)
       THEN [type |-> "CHAT_WITH_IMAGE", model |-> b.model,
             promptObject |->
                IF config # Undefined
                THEN [prompt |-> formattedHistory, isMixed |-> FALSE,
                      imageList |-> b.imagePaths, webSearch |-> config.webSearch,
                      numOfSite |-> config.numOfSite, maxWord |-> config.maxWord]
                ELSE [prompt |-> formattedHistory, isMixed |-> FALSE,
                      imageList |-> b.imagePaths]]
       ELSE [type |-> "CHAT_WITH_AI", model |-> b.model,
             promptObject |->
                IF config # Undefined /\ config.webSearch
                THEN [prompt |-> formattedHistory, isMixed |-> FALSE,
                      webSearch |-> config.webSearch,
                      numOfSite |-> config.numOfSite, maxWord |-> config.maxWord]
                ELSE [prompt |-> formattedHistory, isMixed |-> FALSE,
                      webSearch |-> IF config # Undefined THEN config.webSearch ELSE FALSE]]


(* utils/image extractImageFromContent: the url of the first image part *)
extractImageFromContent(items) ==
    IF ImageUrlsOf(items) = <<>> THEN "" ELSE Head(ImageUrlsOf(items))

(* processMessagesWithImageCheck: hasImages *)
hasImages(messages) ==
    \E k \in 1..Len(messages) :
        /\ messages[k].content.isArray
        /\ extractImageFromContent(messages[k].content.items) # ""

(* What getModelData answers to validateModelAndMessages *)
Models == {"gpt-4o", "mistral-nemo"}
Snapshot(chatModelIds, visionModelIds) ==
    [available |-> TRUE, chatModelIds |-> chatModelIds, visionModelIds |-> visionModelIds]
Unavailable == [available |-> FALSE, chatModelIds |-> {}, visionModelIds |-> {}]
Registries ==
    {Snapshot(Models, vision) : vision \in SUBSET Models} \cup {Snapshot({}, {}), Unavailable}

(* A network call of the request and how it ended *)
NetCall(call, url) == [call |-> call, url |-> url, outcome |-> "pending"]
Settle(net, outcome) == [net EXCEPT ![Len(net)].outcome = outcome]

DoesNotSupportImages(model) == <<"Model '", model, "' does not support image inputs">>

(* Requests: one message, or two of which the first is short *)
Items == {TextItem("look"), ImageItem("http://a/1.png"), ImageItem("http://b/2.png"),
          ImageItem("")}
Contents == {StringContent("hi")}
            \cup {ArrayContent(items) : items \in SeqsUpTo(Items, MaxParts)}
ShortContents == {StringContent("be brief")}
                 \cup {ArrayContent(<<item>>) : item \in Items}
Batches == {<<Message("user", c)>> : c \in Contents}
           \cup {<<Message("system", c1), Message("user", c2)>> :
                    c1 \in ShortContents, c2 \in Contents}

BuildInit ==
    /\ build \in [pc : {"validate"}, messages : Batches, model : Models,
                  webSearchConfig : WebSearchConfigs, registry : Registries,
                  i : {0}, imagePaths : {<<>>}, hasImageRequests : {FALSE},
                  allImagesUploaded : {TRUE}, net : {<<>>}, error : {<<>>},
                  out : {NoPayload}]
    /\ RegAtRest /\ LimiterAtRest /\ PmAtRest /\ SendAtRest /\ DecAtRest /\ RelayAtRest /\ CallAtRest

(* Mutant: the vision check of the validation is missing *)
ValidateNoVisionCheck ==
    /\ build.pc = "validate"
    /\ build' =
         IF ~build.registry.available
         THEN [build EXCEPT !.pc = "done", !.error = <<"ApiError", 503>>]
         ELSE IF build.model \notin build.registry.chatModelIds
         THEN [build EXCEPT !.pc = "done", !.error = <<"ModelNotFoundError", build.model>>]
         ELSE [build EXCEPT !.pc = "call"]
    /\ UNCHANGED notBuild

(* validateModelAndMessages, lines 35-57, after the model name is parsed *)
Validate ==
    /\ build.pc = "validate"
    /\ build' =
         IF ~build.registry.available
         THEN [build EXCEPT !.pc = "done", !.error = <<"ApiError", 503>>]
         ELSE IF build.model \notin build.registry.chatModelIds
         THEN [build EXCEPT !.pc = "done", !.error = <<"ModelNotFoundError", build.model>>]
         ELSE IF hasImages(build.messages)
                 /\ build.model \notin build.registry.visionModelIds
         THEN [build EXCEPT !.pc = "done", !.error = DoesNotSupportImages(build.model)]
         ELSE [build EXCEPT !.pc = "call"]
    /\ UNCHANGED notBuild

(* buildChatRequestBody, lines 166-243: the loop from image part i on, up  *)
(* to its next await or to the return *)
LoopFrom(b, i) ==
    IF i > Len(ImageParts(b.messages))
    THEN [b EXCEPT !.pc = "send", !.i = i, !.out = BuildReturned(ChatRequestBody(b))]
    ELSE IF ~isVisionSupportedModel(b.model)
    THEN [b EXCEPT !.pc = "done", !.i = i, !.hasImageRequests = TRUE,
                   !.out = BuildThrown(DoesNotSupportImages(b.model))]
    ELSE [b EXCEPT !.pc = "download", !.i = i, !.hasImageRequests = TRUE,
                   !.net = Append(@, NetCall("processImageUrl", ImageParts(b.messages)[i]))]

(* Mutant: the error of an image is not caught *)
CatchImageErrorRethrows(b) ==
    [b EXCEPT !.pc = "done", !.out = BuildThrown(<<"image failed">>)]

(* buildChatRequestBody, lines 185-189: the catch block, then the loop     *)
(* goes on *)
CatchImageError(b) ==
    LoopFrom([b EXCEPT !.allImagesUploaded = FALSE], b.i + 1)

BuildCall ==
    /\ build.pc = "call"
    /\ build' = LoopFrom(build, 1)
    /\ UNCHANGED notBuild

(* processImageUrl resolves: uploadImageToAsset is called *)
DownloadResolves ==
    /\ build.pc = "download"
    /\ build' = [build EXCEPT !.pc = "upload",
                    !.net = Append(Settle(@, "resolved"),
                                   NetCall("uploadImageToAsset",
                                           ImageParts(build.messages)[build.i]))]
    /\ UNCHANGED notBuild

DownloadRejects ==
    /\ build.pc = "download"
    /\ build' = CatchImageError([build EXCEPT !.net = Settle(@, "rejected")])
    /\ UNCHANGED notBuild

(* uploadImageToAsset resolves with the asset path, which is pushed *)
UploadResolves ==
    /\ build.pc = "upload"
    /\ build' = LoopFrom([build EXCEPT
                             !.net = Settle(@, "resolved"),
                             !.imagePaths =
                                Append(@, AssetPath(ImageParts(build.messages)[build.i]))],
                         build.i + 1)
    /\ UNCHANGED notBuild

UploadRejects ==
    /\ build.pc = "upload"
    /\ build' = CatchImageError([build EXCEPT !.net = Settle(@, "rejected")])
    /\ UNCHANGED notBuild

(* BaseTextHandler.sendNonStreamingRequest: the payload goes upstream *)
SendPayload ==
    /\ build.pc = "send"
    /\ build' = [build EXCEPT !.pc = "done",
                    !.net = Append(@, NetCall("sendChatRequest", build.out.body.type))]
    /\ UNCHANGED notBuild

BuildNext ==
    \/ Validate
    \/ BuildCall
    \/ DownloadResolves
    \/ DownloadRejects
    \/ UploadResolves
    \/ UploadRejects
    \/ SendPayload

BuildSpec == BuildInit /\ [][BuildNext]_vars

(* The image parts of the request and what became of them *)
NetCalls(call, outcome) ==
    {k \in 1..Len(build.net) : build.net[k].call = call /\ build.net[k].outcome = outcome}
PayloadBuilt == build # <<>> /\ build.out.kind = "returned"

C13_ImageFailureSkipped ==
    build # <<>> /\ build.net # <<>> =>
       LET parts == ImageParts(build.messages)
       IN /\ build.out.kind # "thrown"
          /\ build.pc \in {"send", "done"} =>
                /\ build.out.kind = "returned"
                /\ \A k \in 1..Len(parts) :
                      \E n \in 1..Len(build.net) :
                         /\ build.net[n].call = "processImageUrl"
                         /\ build.net[n].url = parts[k]
                /\ Cardinality({n \in 1..Len(build.net) :
                                   build.net[n].call = "processImageUrl"}) = Len(parts)

(* The first image fails to download, the second one is still processed *)
C13_Witness ==
    /\ PayloadBuilt
    /\ Len(build.net) >= 3
    /\ build.net[1].call = "processImageUrl" /\ build.net[1].outcome = "rejected"
    /\ build.net[2].call = "processImageUrl" /\ build.net[2].outcome = "resolved"
    /\ build.net[3].call = "uploadImageToAsset" /\ build.net[3].outcome = "resolved"

C14_BuilderRejects ==
    /\ build # <<>>
    /\ build.pc = "done"
    /\ ImageParts(build.messages) # <<>>
    /\ build.model \in build.registry.visionModelIds
    /\ build.out.kind = "thrown"
    /\ build.net = <<>>

-----------------------------------------------------------------------------
(* SimpleUTF8Decoder: a TextDecoder("utf-8", {fatal: false, ignoreBOM:     *)
(* true}).  Bytes are numbers 0..255, a string is its sequence of code     *)
(* points. *)

MaxChars == 2

ReplacementCharacter == 65533

(* The decoder between two bytes: the code point under construction, the   *)
(* bytes seen and needed for it, and the range allowed for the next byte *)
FreshDecoder == [cp |-> 0, seen |-> 0, needed |-> 0, lower |-> 128, upper |-> 191]

Lead(cp, needed, lower, upper) ==
    [cp |-> cp, seen |-> 0, needed |-> needed, lower |-> lower, upper |-> upper]

(* The UTF-8 decoder of TextDecoder run over the bytes of one chunk *)
RECURSIVE Utf8Run(_, _, _)
Utf8Run(st, bytes, out) ==
    IF bytes = <<>> THEN [state |-> st, out |-> out]
    ELSE LET b == Head(bytes)
         IN IF st.needed = 0
            THEN IF b <= 127 THEN Utf8Run(st, Tail(bytes), Append(out, b))
                 ELSE IF b >= 194 /\ b <= 223
                 THEN Utf8Run(Lead(b % 32, 1, 128, 191), Tail(bytes), out)
                 ELSE IF b >= 224 /\ b <= 239
                 THEN Utf8Run(Lead(b % 16, 2, IF b = 224 THEN 160 ELSE 128,
                                   IF b = 237 THEN 159 ELSE 191), Tail(bytes), out)
                 ELSE IF b >= 240 /\ b <= 244
                 THEN Utf8Run(Lead(b % 8, 3, IF b = 240 THEN 144 ELSE 128,
                                   IF b = 244 THEN 143 ELSE 191), Tail(bytes), out)
                 ELSE Utf8Run(st, Tail(bytes), Append(out, ReplacementCharacter))
            ELSE IF b < st.lower \/ b > st.upper
                 THEN Utf8Run(FreshDecoder, bytes, Append(out, ReplacementCharacter))
                 ELSE LET cp == st.cp * 64 + (b % 64)
                      IN IF st.seen + 1 = st.needed
                         THEN Utf8Run(FreshDecoder, Tail(bytes), Append(out, cp))
                         ELSE Utf8Run([st EXCEPT !.cp = cp, !.seen = @ + 1,
                                                 !.lower = 128, !.upper = 191],
                                      Tail(bytes), out)

(* TextDecoder.decode(chunk, {stream}): without stream the decoder is      *)
(* flushed, an unfinished character becomes U+FFFD *)
TextDecoderDecode(st, chunk, stream) ==
    LET r == Utf8Run(st, chunk, <<>>)
    IN IF stream THEN r
       ELSE [state |-> FreshDecoder,
             out |-> IF r.state.needed # 0
                     THEN Append(r.out, ReplacementCharacter) ELSE r.out]

(* Mutant: every chunk is decoded on its own *)
decodeEachChunkAlone(st, chunk, isLastChunk) == TextDecoderDecode(st, chunk, FALSE)

(* SimpleUTF8Decoder.decode *)
decode(st, chunk, isLastChunk) == TextDecoderDecode(st, chunk, ~isLastChunk)

(* Texts: characters of one, two, three and four bytes *)
Chars == {65, 233, 8364, 128512}
Texts == SeqsUpTo(Chars, MaxChars)

Utf8Bytes(cp) ==
    IF cp < 128 THEN <<cp>>
    ELSE IF cp < 2048 THEN <<192 + (cp \div 64), 128 + (cp % 64)>>
    ELSE IF cp < 65536
    THEN <<224 + (cp \div 4096), 128 + ((cp \div 64) % 64), 128 + (cp % 64)>>
    ELSE <<240 + (cp \div 262144), 128 + ((cp \div 4096) % 64),
           128 + ((cp \div 64) % 64), 128 + (cp % 64)>>

RECURSIVE Utf8Encode(_)
Utf8Encode(text) ==
    IF text = <<>> THEN <<>> ELSE Utf8Bytes(Head(text)) \o Utf8Encode(Tail(text))

Utf8Init ==
    /\ dec \in [text : Texts, rest : {<<>>}, state : {FreshDecoder},
                reads : {<<>>}, outs : {<<>>}, started : {FALSE}]
    /\ RegAtRest /\ LimiterAtRest /\ PmAtRest /\ SendAtRest /\ BuildAtRest /\ RelayAtRest /\ CallAtRest

(* new SimpleUTF8Decoder(), and the text on its way as bytes *)
NewDecoder ==
    /\ ~dec.started
    /\ dec' = [dec EXCEPT !.started = TRUE, !.rest = Utf8Encode(dec.text)]
    /\ UNCHANGED notDec

(* One read of n bytes is decoded; only the last read may carry the flag *)
DecodeRead(n, isLastChunk) ==
    /\ dec.started
    /\ n <= Len(dec.rest)
    /\ isLastChunk => n = Len(dec.rest)
    /\ LET chunk == SubSeq(dec.rest, 1, n)
           r == decode(dec.state, chunk, isLastChunk)
       IN dec' = [dec EXCEPT !.rest = SubSeq(@, n + 1, Len(@)),
                             !.state = r.state,
                             !.reads = Append(@, chunk),
                             !.outs = Append(@, r.out)]
    /\ UNCHANGED notDec

Utf8Next ==
    \/ NewDecoder
    \/ \E n \in 1..(4 * MaxChars), isLastChunk \in BOOLEAN : DecodeRead(n, isLastChunk)

Utf8Spec == Utf8Init /\ [][Utf8Next]_vars

RECURSIVE Flatten(_)
Flatten(seqs) == IF seqs = <<>> THEN <<>> ELSE Head(seqs) \o Flatten(Tail(seqs))

(* C18: when all bytes of a valid UTF-8 text have been fed to decode in    *)
(* successive reads, however split, the strings returned add up to the     *)
(* text, and none of them holds U+FFFD. *)
C18_SplitDecodeReassembles ==
    dec # <<>> /\ dec.started =>
       /\ \A k \in 1..Len(dec.outs) : \A j \in 1..Len(dec.outs[k]) : dec.outs[k][j] # 65533
       /\ dec.rest = <<>> => Flatten(dec.outs) = dec.text
       /\ Flatten(dec.reads) \o dec.rest = Utf8Encode(dec.text)

(* The euro sign, three bytes, read as one byte and then two *)
C18_Witness ==
    /\ dec # <<>>
    /\ dec.text = <<8364>>
    /\ dec.reads = << <<226>>, <<130, 172>> >>
    /\ dec.outs = << <<>>, <<8364>> >>

-----------------------------------------------------------------------------
(* The streaming relays: ChatHandler.handleStreamingChat (handlers/base),  *)
(* ResponseHandler.handleStreamingResponse and                             *)
(* MessagesHandler.handleStreamingMessage.  The relay task is the async    *)
(* function started without await; it runs from one await to the next. *)

MaxText == 2

Protocols == {"chat", "responses", "anthropic"}

(* An SSE event: its type, the text it carries, its finish or stop reason *)
Event(type, text, finish) == [type |-> type, text |-> text, finish |-> finish]

Preamble(protocol) ==
    CASE protocol = "chat" -> <<>>
      [] protocol = "responses" ->
            <<Event("response.created", <<>>, "in_progress"),
              Event("response.output_item.added", <<>>, "in_progress"),
              Event("response.content_part.added", <<>>, "")>>
      [] protocol = "anthropic" ->
            <<Event("message_start", <<>>, "null"),
              Event("content_block_start", <<>>, ""),
              Event("ping", <<>>, "")>>

Delta(protocol, chunk) ==
    CASE protocol = "chat" -> Event("chat.completion.chunk", chunk, "null")
      [] protocol = "responses" -> Event("response.output_text.delta", chunk, "")
      [] protocol = "anthropic" -> Event("content_block_delta", chunk, "")

(* Mutant: the terminal event is written first *)
FinaleTerminalFirst(protocol, accumulatedContent) ==
    CASE protocol = "chat" ->
            <<Event("[DONE]", <<>>, ""),
              Event("chat.completion.chunk", <<>>, "stop")>>
      [] protocol = "responses" ->
            <<Event("[DONE]", <<>>, ""),
              Event("response.output_text.done", accumulatedContent, ""),
              Event("response.content_part.done", accumulatedContent, ""),
              Event("response.output_item.done", accumulatedContent, "completed"),
              Event("response.done", accumulatedContent, "completed")>>
      [] protocol = "anthropic" ->
            <<Event("message_stop", <<>>, ""),
              Event("content_block_stop", <<>>, ""),
              Event("message_delta", <<>>, "end_turn")>>

(* The events written after the loop, the last one being the terminal one *)
Finale(protocol, accumulatedContent) ==
    CASE protocol = "chat" ->
            <<Event("chat.completion.chunk", <<>>, "stop"),
              Event("[DONE]", <<>>, "")>>
      [] protocol = "responses" ->
            <<Event("response.output_text.done", accumulatedContent, ""),
              Event("response.content_part.done", accumulatedContent, ""),
              Event("response.output_item.done", accumulatedContent, "completed"),
              Event("response.done", accumulatedContent, "completed"),
              Event("[DONE]", <<>>, "")>>
      [] protocol = "anthropic" ->
            <<Event("content_block_stop", <<>>, ""),
              Event("message_delta", <<>>, "end_turn"),
              Event("message_stop", <<>>, "")>>

(* if (chunk): the Responses and Anthropic relays skip an empty string,    *)
(* the chat relay of handlers/base writes every decoded string *)
SkipsEmptyChunk(protocol) == protocol # "chat"

(* What the task has issued, in order *)
Op(op, ev, flag) == [op |-> op, ev |-> ev, flag |-> flag]
NoEvent == Event("", <<>>, "")

IssueRead(r) ==
    [r EXCEPT !.reading = TRUE, !.log = Append(@, Op("read", NoEvent, FALSE))]

(* await writeSSEEvent / writeSSEEventWithType / writeSSEDone: the task    *)
(* goes on when the write to the writer has completed *)
writeSSEEvent(r, events) ==
    [r EXCEPT !.writing = <<Head(events)>>, !.script = Tail(events),
              !.log = Append(@, Op("write", Head(events), FALSE))]

IssueClose(r) ==
    [r EXCEPT !.closing = TRUE, !.log = Append(@, Op("close", NoEvent, FALSE))]

(* Mutant: the catch block ends the stream normally *)
CatchClosesNormally(r, error) ==
    [r EXCEPT !.phase = "closed", !.reading = FALSE, !.writing = <<>>,
              !.closing = FALSE, !.script = <<>>,
              !.log = Append(Append(@, Op(error, NoEvent, FALSE)),
                             Op("close", NoEvent, FALSE))]

(* Mutant: after the failure the loop goes on reading *)
CatchKeepsReading(r, error) ==
    [r EXCEPT !.reading = TRUE, !.writing = <<>>, !.closing = FALSE,
              !.log = Append(Append(@, Op(error, NoEvent, FALSE)),
                             Op("read", NoEvent, FALSE))]

(* catch (error) { await writer.abort(error) } *)
Catch(r, error) ==
    [r EXCEPT !.phase = "aborted", !.reading = FALSE, !.writing = <<>>,
              !.closing = FALSE, !.script = <<>>, !.aborted = error,
              !.log = Append(Append(@, Op(error, NoEvent, FALSE)),
                             Op("abort", Event(error, <<>>, ""), FALSE))]

RelayChars == {65, 8364}

RelayInit ==
    /\ relay \in [protocol : Protocols, inputTokens : {0, 3},
                  text : SeqsUpTo(RelayChars, MaxText),
                  rest : {<<>>}, state : {FreshDecoder}, contentChunks : {<<>>},
                  phase : {"new"}, reading : {FALSE}, writing : {<<>>},
                  closing : {FALSE}, script : {<<>>}, aborted : {""},
                  log : {<<>>}]
    /\ RegAtRest /\ LimiterAtRest /\ PmAtRest /\ SendAtRest /\ BuildAtRest /\ DecAtRest /\ CallAtRest


(* The task starts: new SimpleUTF8Decoder(), then the preamble, or the     *)
(* first read when the protocol has none *)
RelayStart ==
    /\ relay.phase = "new"
    /\ LET r == [relay EXCEPT !.rest = Utf8Encode(relay.text), !.state = FreshDecoder]
       IN relay' = IF Preamble(r.protocol) = <<>>
                   THEN IssueRead([r EXCEPT !.phase = "streaming"])
                   ELSE writeSSEEvent([r EXCEPT !.phase = "started"], Preamble(r.protocol))
    /\ UNCHANGED notRelay

(* Mutant: the chunk is decoded with the flag set *)
DecodeChunkFinal(r, value, done) ==
    LET d == decode(r.state, value, TRUE)
    IN [r |-> [r EXCEPT !.state = d.state,
                        !.log = Append(@, Op("decode", NoEvent, TRUE))],
        chunk |-> d.out]

(* const chunk = utf8Decoder.decode(value, done) *)
DecodeChunk(r, value, done) ==
    LET d == decode(r.state, value, done)
    IN [r |-> [r EXCEPT !.state = d.state,
                        !.log = Append(@, Op("decode", NoEvent, done))],
        chunk |-> d.out]

(* responses.ts 377-390: the usage of the final response.  outputTokens   *)
(* is what calculateTokens gives for the text, with a tokenizer that      *)
(* makes one token of each character; inputTokens is what                 *)
(* estimateInputTokens gave for the messages of the request *)
Usage(inputTokens, accumulatedContent) ==
    LET outputTokens == Len(accumulatedContent)
    IN [input_tokens |-> inputTokens, output_tokens |-> outputTokens,
        total_tokens |-> inputTokens + outputTokens]

(* The final response of response.done carries the usage *)
WithUsage(events, usage) ==
    [i \in DOMAIN events |->
        IF events[i].type = "response.done"
        THEN [type |-> events[i].type, text |-> events[i].text,
              finish |-> events[i].finish, usage |-> usage]
        ELSE events[i]]

(* Mutant: the decoded strings are not kept *)
LoopBodyKeepsNoChunk(r, done, value) ==
    IF done
    THEN writeSSEEvent([r EXCEPT !.phase = "finalizing"],
                       WithUsage(Finale(r.protocol, Flatten(r.contentChunks)),
                                 Usage(r.inputTokens, Flatten(r.contentChunks))))
    ELSE LET d == DecodeChunk(r, value, done)
         IN IF SkipsEmptyChunk(r.protocol) /\ d.chunk = <<>>
            THEN IssueRead(d.r)
            ELSE writeSSEEvent(d.r, <<Delta(r.protocol, d.chunk)>>)

(* The loop from the result of a read to the next await, and the events    *)
(* after the loop when the stream is done *)
LoopBody(r, done, value) ==
    IF done
    THEN writeSSEEvent([r EXCEPT !.phase = "finalizing"],
                       WithUsage(Finale(r.protocol, Flatten(r.contentChunks)),
                                 Usage(r.inputTokens, Flatten(r.contentChunks))))
    ELSE LET d == DecodeChunk(r, value, done)
         IN IF SkipsEmptyChunk(r.protocol) /\ d.chunk = <<>>
            THEN IssueRead(d.r)
            ELSE writeSSEEvent(
                    [d.r EXCEPT !.contentChunks =
                        IF SkipsEmptyChunk(r.protocol) THEN Append(@, d.chunk) ELSE @],
                    <<Delta(r.protocol, d.chunk)>>)

(* Mutant: the delta is written without await, the loop reads on *)
AfterReadReadsAhead(r, done, value) ==
    LET next == LoopBody(r, done, value)
    IN IF done \/ next.writing = <<>> THEN next ELSE IssueRead(next)

AfterRead(r, done, value) == LoopBody(r, done, value)

(* reader.read() resolves with the next n bytes of the upstream stream *)
ReadChunk(n) ==
    /\ relay.reading
    /\ n <= Len(relay.rest)
    /\ relay' = AfterRead([relay EXCEPT !.reading = FALSE,
                                        !.rest = SubSeq(@, n + 1, Len(@))],
                          FALSE, SubSeq(relay.rest, 1, n))
    /\ UNCHANGED notRelay

(* reader.read() resolves with done: the upstream stream has ended *)
ReadEnd ==
    /\ relay.reading
    /\ relay.rest = <<>>
    /\ relay' = AfterRead([relay EXCEPT !.reading = FALSE], TRUE, <<>>)
    /\ UNCHANGED notRelay

ReadFails ==
    /\ relay.reading
    /\ relay' = Catch(relay, "read-error")
    /\ UNCHANGED notRelay

(* The write in flight completes: the next event of the sequence, the      *)
(* next read, or writer.close() *)
WriteCompletes ==
    /\ relay.writing # <<>>
    /\ LET r == [relay EXCEPT !.writing = <<>>]
       IN relay' = IF r.script # <<>> THEN writeSSEEvent(r, r.script)
                   ELSE IF r.phase = "finalizing"
                   THEN IssueClose([r EXCEPT !.phase = "done"])
                   ELSE IssueRead([r EXCEPT !.phase = "streaming"])
    /\ UNCHANGED notRelay

(* The consumer of the output channel is gone: the write rejects *)
WriteFails ==
    /\ relay.writing # <<>>
    /\ relay' = Catch(relay, "write-error")
    /\ UNCHANGED notRelay

CloseCompletes ==
    /\ relay.closing
    /\ relay' = [relay EXCEPT !.closing = FALSE, !.phase = "closed"]
    /\ UNCHANGED notRelay

CloseFails ==
    /\ relay.closing
    /\ relay' = Catch(relay, "close-error")
    /\ UNCHANGED notRelay

RelayNext ==
    \/ RelayStart
    \/ \E n \in 1..(3 * MaxText) : ReadChunk(n)
    \/ ReadEnd
    \/ ReadFails
    \/ WriteCompletes
    \/ WriteFails
    \/ CloseCompletes
    \/ CloseFails

RelaySpec == RelayInit /\ [][RelayNext]_vars

(* Streaming relays: claims *)

LogIndices(op) == {k \in 1..Len(relay.log) : relay.log[k].op = op}
Failures == LogIndices("read-error") \cup LogIndices("write-error")
               \cup LogIndices("close-error")

(* The place of an event in the life of a stream: 1 preamble, 2 delta,     *)
(* 3 completion, 4 terminal *)
Rank(ev) ==
    IF ev.type \in {"response.created", "response.output_item.added",
                    "response.content_part.added", "message_start",
                    "content_block_start", "ping"} THEN 1
    ELSE IF ev.type \in {"response.output_text.delta", "content_block_delta"}
            \/ (ev.type = "chat.completion.chunk" /\ ev.finish # "stop") THEN 2
    ELSE IF ev.type \in {"[DONE]", "message_stop"} THEN 4
    ELSE 3

WritesOfRank(n) == {k \in LogIndices("write") : Rank(relay.log[k].ev) = n}

RECURSIVE TypesWritten(_)
TypesWritten(log) ==
    IF log = <<>> THEN <<>>
    ELSE (IF Head(log).op = "write" /\ Rank(Head(log).ev) # 2
          THEN <<Head(log).ev.type>> ELSE <<>>) \o TypesWritten(Tail(log))

RECURSIVE DeltaText(_)
DeltaText(log) ==
    IF log = <<>> THEN <<>>
    ELSE (IF Head(log).op = "write" /\ Rank(Head(log).ev) = 2
          THEN Head(log).ev.text ELSE <<>>) \o DeltaText(Tail(log))

ExpectedTypes ==
    [chat |-> <<"chat.completion.chunk", "[DONE]">>,
     responses |-> <<"response.created", "response.output_item.added",
                     "response.content_part.added", "response.output_text.done",
                     "response.content_part.done", "response.output_item.done",
                     "response.done", "[DONE]">>,
     anthropic |-> <<"message_start", "content_block_start", "ping",
                     "content_block_stop", "message_delta", "message_stop">>]

ExpectedPreamble ==
    [chat |-> <<>>,
     responses |-> <<"response.created", "response.output_item.added",
                     "response.content_part.added">>,
     anthropic |-> <<"message_start", "content_block_start", "ping">>]

(* C15: on a stream without failure every relay writes its preamble before *)
(* the first read, then the deltas in read order, then the completion      *)
(* events, then the terminal event, then closes once; no delta follows a   *)
(* completion event and nothing but the close follows the terminal event. *)
C15_RelayLifecycle ==
    Failures = {} =>
       /\ \A w \in WritesOfRank(1) : \A r \in LogIndices("read") : w < r
       /\ \A w1 \in LogIndices("write"), w2 \in LogIndices("write") :
             w1 < w2 => Rank(relay.log[w1].ev) <= Rank(relay.log[w2].ev)
       /\ \A w \in WritesOfRank(3) \cup WritesOfRank(4) :
             \A r \in LogIndices("read") \cup LogIndices("decode") : r < w
       /\ Cardinality(WritesOfRank(4)) <= 1
       /\ \A w \in WritesOfRank(4) : \A k \in (w + 1)..Len(relay.log) :
             relay.log[k].op = "close"
       /\ Cardinality(LogIndices("close")) <= 1
       /\ \A c \in LogIndices("close") : WritesOfRank(4) # {} /\ c = Len(relay.log)
       /\ LogIndices("abort") = {}
       /\ LET text == DeltaText(relay.log)
          IN /\ Len(text) <= Len(relay.text)
             /\ text = SubSeq(relay.text, 1, Len(text))
       /\ LogIndices("read") # {} =>
             SubSeq(TypesWritten(relay.log), 1, Cardinality(WritesOfRank(1)))
                = ExpectedPreamble[relay.protocol]
       /\ relay.phase = "closed" =>
             /\ TypesWritten(relay.log) = ExpectedTypes[relay.protocol]
             /\ DeltaText(relay.log) = relay.text

(* A Responses stream of two characters in two reads, closed *)
C15_Witness ==
    /\ relay.phase = "closed"
    /\ relay.protocol = "responses"
    /\ Cardinality(WritesOfRank(2)) = 2
    /\ Failures = {}

(* C16: an error while reading, writing or closing aborts the channel     *)
(* with that error at once: nothing is written and the channel is not      *)
(* closed after it, and the task stays aborted. *)
C16_FailureAborts ==
    /\ \A k \in Failures :
          /\ k + 1 = Len(relay.log)
          /\ relay.log[k + 1].op = "abort"
          /\ relay.log[k + 1].ev.type = relay.log[k].op
          /\ relay.phase = "aborted"
          /\ relay.aborted = relay.log[k].op
    /\ LogIndices("abort") # {} => Failures # {}
    /\ relay.phase = "aborted" =>
          /\ ~relay.reading /\ ~relay.closing /\ relay.writing = <<>>
          /\ relay.script = <<>>

(* The write of a completion event fails *)
C16_Witness ==
    /\ relay.phase = "aborted"
    /\ relay.aborted = "write-error"
    /\ WritesOfRank(3) # {}
    /\ WritesOfRank(4) = {}

(* C17: every decode call of a relay runs in streaming mode: the flag is   *)
(* never set, since a chunk is decoded only when the read did not signal   *)
(* the end of the stream. *)
C17_DecodeNeverFinal ==
    \A k \in LogIndices("decode") :
        /\ relay.log[k].flag = FALSE
        /\ relay.log[k - 1].op = "read"
        /\ WritesOfRank(3) = {} \/ \A w \in WritesOfRank(3) : k < w

(* A chunk holding the first byte of a three-byte character is decoded *)
C17_Witness ==
    /\ LogIndices("decode") # {}
    /\ relay.state.needed = 2
    /\ relay.text = <<8364>>

C20_NoReadAfterWriteFailure ==
    \A k \in LogIndices("write-error") :
        /\ \A r \in LogIndices("read") : r < k
        /\ ~relay.reading

(* The write of a delta fails while the upstream has bytes left *)
C20_Witness ==
    /\ LogIndices("write-error") # {}
    /\ relay.rest # <<>>
    /\ WritesOfRank(2) # {}

-----------------------------------------------------------------------------
(* utils/model-parser.ts: parseModelName, getWebSearchConfig and           *)
(* parseAndGetConfig.  A string is the sequence of its characters.         *)

MaxName == 2

ONLINE_SUFFIX == <<":", "o", "n", "l", "i", "n", "e">>
DEFAULT_NUM_OF_SITE == 1
DEFAULT_MAX_WORD == 500

EmptyNameError == "Model name cannot be empty"
ColonError == "Invalid model name format. Only ':online' suffix is supported"

WhiteSpace == {" ", "\t"}

RECURSIVE trimStart(_)
trimStart(s) == IF s # <<>> /\ Head(s) \in WhiteSpace THEN trimStart(Tail(s)) ELSE s

RECURSIVE trimEnd(_)
trimEnd(s) ==
    IF s # <<>> /\ s[Len(s)] \in WhiteSpace THEN trimEnd(SubSeq(s, 1, Len(s) - 1)) ELSE s

trim(s) == trimEnd(trimStart(s))

endsWith(s, suffix) ==
    /\ Len(s) >= Len(suffix)
    /\ SubSeq(s, Len(s) - Len(suffix) + 1, Len(s)) = suffix

includes(s, c) == \E i \in 1..Len(s) : s[i] = c

IsString(v) == v.type = "string"

(* !modelName || typeof modelName !== "string" *)
IsEmptyOrNotString(v) == ~IsString(v) \/ v.s = <<>>

(* Mutant: the name is not trimmed *)
parseModelNameNoTrim(modelName) ==
    IF IsEmptyOrNotString(modelName)
    THEN [originalModel |-> <<>>, hasOnlineSuffix |-> FALSE, isValid |-> FALSE,
          error |-> EmptyNameError]
    ELSE LET trimmedModel == modelName.s
         IN IF endsWith(trimmedModel, ONLINE_SUFFIX)
            THEN LET originalModel ==
                         SubSeq(trimmedModel, 1, Len(trimmedModel) - Len(ONLINE_SUFFIX))
                 IN IF originalModel = <<>>
                    THEN [originalModel |-> <<>>, hasOnlineSuffix |-> TRUE,
                          isValid |-> FALSE, error |-> EmptyNameError]
                    ELSE [originalModel |-> originalModel, hasOnlineSuffix |-> TRUE,
                          isValid |-> TRUE]
            ELSE IF includes(trimmedModel, ":")
            THEN [originalModel |-> <<>>, hasOnlineSuffix |-> FALSE,
                  isValid |-> FALSE, error |-> ColonError]
            ELSE [originalModel |-> trimmedModel, hasOnlineSuffix |-> FALSE,
                  isValid |-> TRUE]

(* Mutant: any colon is rejected before the suffix is looked at *)
parseModelNameColonFirst(modelName) ==
    IF IsEmptyOrNotString(modelName)
    THEN [originalModel |-> <<>>, hasOnlineSuffix |-> FALSE, isValid |-> FALSE,
          error |-> EmptyNameError]
    ELSE LET trimmedModel == trim(modelName.s)
         IN IF includes(trimmedModel, ":")
            THEN [originalModel |-> <<>>, hasOnlineSuffix |-> FALSE,
                  isValid |-> FALSE, error |-> ColonError]
            ELSE [originalModel |-> trimmedModel, hasOnlineSuffix |-> FALSE,
                  isValid |-> TRUE]

(* Lines 28-77.  A result without error has no error field. *)
parseModelName(modelName) ==
    IF IsEmptyOrNotString(modelName)
    THEN [originalModel |-> <<>>, hasOnlineSuffix |-> FALSE, isValid |-> FALSE,
          error |-> EmptyNameError]
    ELSE LET trimmedModel == trim(modelName.s)
         IN IF endsWith(trimmedModel, ONLINE_SUFFIX)
            THEN LET originalModel ==
                         SubSeq(trimmedModel, 1, Len(trimmedModel) - Len(ONLINE_SUFFIX))
                 IN IF originalModel = <<>>
                    THEN [originalModel |-> <<>>, hasOnlineSuffix |-> TRUE,
                          isValid |-> FALSE, error |-> EmptyNameError]
                    ELSE [originalModel |-> originalModel, hasOnlineSuffix |-> TRUE,
                          isValid |-> TRUE]
            ELSE IF includes(trimmedModel, ":")
            THEN [originalModel |-> <<>>, hasOnlineSuffix |-> FALSE,
                  isValid |-> FALSE, error |-> ColonError]
            ELSE [originalModel |-> trimmedModel, hasOnlineSuffix |-> FALSE,
                  isValid |-> TRUE]

(* The arguments: values that are not strings, the three names of the     *)
(* examples, and every name made of optional white space, up to MaxName   *)
(* characters, an optional ":online" and optional white space *)
NameChars == {"g", ":", " "}
Pads == {<<>>, <<" ">>, <<"\t">>}
NotStrings == {Null, [type |-> "undefined"], [type |-> "number", n |-> 7]}
ExampleNames == {<<"g", "p", "t", "-", "4", "o">> \o ONLINE_SUFFIX,
                 ONLINE_SUFFIX, <<"a", ":", "b">>}
NameTexts ==
    ExampleNames \cup
    {pre \o core \o suffix \o post :
        pre \in Pads, core \in SeqsUpTo(NameChars, MaxName),
        suffix \in {<<>>, ONLINE_SUFFIX}, post \in Pads}
ModelNames == NotStrings \cup {Str(text) : text \in NameTexts}

ParseInit ==
    /\ fncall \in [fn : {"parseModelName"}, modelName : ModelNames,
                 pc : {"called"}, out : {Undefined}]
    /\ RegAtRest /\ LimiterAtRest /\ PmAtRest /\ SendAtRest /\ BuildAtRest /\ DecAtRest /\ RelayAtRest

RunParseModelName ==
    /\ fncall.pc = "called"
    /\ fncall' = [fncall EXCEPT !.pc = "returned", !.out = parseModelName(fncall.modelName)]
    /\ UNCHANGED notCall

ParseNext == RunParseModelName

ParseSpec == ParseInit /\ [][ParseNext]_vars

(* The call of parseModelName has returned *)
ParseReturned ==
    /\ fncall # <<>>
    /\ fncall.fn = "parseModelName"
    /\ fncall.pc = "returned"

(* The texts that are s without its leading and trailing white space *)
Trimmed(s) ==
    {SubSeq(s, p[1], p[2]) :
        p \in {q \in (1..(Len(s) + 1)) \X (0..Len(s)) :
                 /\ q[2] >= q[1] - 1
                 /\ \A k \in 1..Len(s) : (k < q[1] \/ k > q[2]) => s[k] \in WhiteSpace
                 /\ q[2] >= q[1] => s[q[1]] \notin WhiteSpace /\ s[q[2]] \notin WhiteSpace}}

(* C21: for a non-empty string whose trimmed form holds no colon (so it   *)
(* does not end in ':online'), parseModelName returns isValid = true,     *)
(* hasOnlineSuffix = false and originalModel = the trimmed input, and no  *)
(* error. *)
C21_PlainNameParsed ==
    (ParseReturned /\ IsString(fncall.modelName) /\ fncall.modelName.s # <<>>) =>
       \A t \in Trimmed(fncall.modelName.s) :
          ~includes(t, ":") =>
             fncall.out = [originalModel |-> t, hasOnlineSuffix |-> FALSE,
                           isValid |-> TRUE]

(* A plain name with white space on both sides has been parsed *)
C21_Witness ==
    /\ ParseReturned
    /\ fncall.modelName = Str(<<" ", "g", "g", "\t">>)
    /\ fncall.out.isValid
    /\ fncall.out.originalModel = <<"g", "g">>

(* t is some text followed by ":online" *)
EndsInOnline(t) == \E n \in 0..Len(t) : t = SubSeq(t, 1, n) \o <<":", "o", "n", "l", "i", "n", "e">>

(* C22: the rules of parseModelName in their order.  An empty or          *)
(* non-string input is invalid with the empty-name error.  Otherwise, a   *)
(* trimmed name ending in ':online' loses the suffix: an empty remainder  *)
(* is invalid with the empty-name error, any other remainder is valid     *)
(* with hasOnlineSuffix = true.  Otherwise a name holding a colon is      *)
(* invalid with the unsupported-colon error.  'gpt-4o:online' gives       *)
(* gpt-4o, ':online' and 'a:b' are invalid. *)
C22_RulesInOrder ==
    ParseReturned =>
       LET name == fncall.modelName
           out == fncall.out
       IN /\ (~IsString(name) \/ name.s = <<>>) =>
                ~out.isValid /\ out.error = EmptyNameError
          /\ (IsString(name) /\ name.s # <<>>) =>
                \A t \in Trimmed(name.s) :
                   /\ EndsInOnline(t) =>
                         LET rest == SubSeq(t, 1, Len(t) - Len(ONLINE_SUFFIX))
                         IN IF rest = <<>>
                            THEN ~out.isValid /\ out.error = EmptyNameError
                            ELSE out = [originalModel |-> rest,
                                        hasOnlineSuffix |-> TRUE, isValid |-> TRUE]
                   /\ (~EndsInOnline(t) /\ includes(t, ":")) =>
                         ~out.isValid /\ out.error = ColonError
          /\ name = Str(<<"g", "p", "t", "-", "4", "o", ":", "o", "n", "l", "i", "n", "e">>) =>
                out = [originalModel |-> <<"g", "p", "t", "-", "4", "o">>,
                       hasOnlineSuffix |-> TRUE, isValid |-> TRUE]
          /\ name = Str(<<":", "o", "n", "l", "i", "n", "e">>) =>
                ~out.isValid /\ out.error = EmptyNameError
          /\ name = Str(<<"a", ":", "b">>) =>
                ~out.isValid /\ out.error = ColonError

(* A name holding a colon before its ':online' suffix has been parsed:    *)
(* the suffix rule applied before the colon rule *)
C22_Witness ==
    /\ ParseReturned
    /\ fncall.modelName = Str(<<"g", ":">> \o ONLINE_SUFFIX \o <<" ">>)
    /\ fncall.out.isValid
    /\ fncall.out.hasOnlineSuffix
    /\ fncall.out.originalModel = <<"g", ":">>

-----------------------------------------------------------------------------
(* getWebSearchConfig and parseAndGetConfig *)

NaN == [nan |-> TRUE, n |-> 0]
Number(n) == [nan |-> FALSE, n |-> n]

DecimalDigits == <<"0", "1", "2", "3", "4", "5", "6", "7", "8", "9">>
IsDigit(c) == \E d \in 1..10 : DecimalDigits[d] = c
DigitValue(c) == (CHOOSE d \in 1..10 : DecimalDigits[d] = c) - 1

(* The value of the longest run of digits s starts with, after acc *)
RECURSIVE DigitsValue(_, _)
DigitsValue(s, acc) ==
    IF s # <<>> /\ IsDigit(Head(s))
    THEN DigitsValue(Tail(s), acc * 10 + DigitValue(Head(s)))
    ELSE acc

(* parseInt(text, 10): white space is skipped, then an optional sign,     *)
(* then the longest run of digits; NaN when there is no digit *)
parseInt(text) ==
    LET t == trimStart(text)
        signed == t # <<>> /\ Head(t) \in {"-", "+"}
        digits == IF signed THEN Tail(t) ELSE t
    IN IF digits = <<>> \/ ~IsDigit(Head(digits))
       THEN NaN
       ELSE IF signed /\ Head(t) = "-"
       THEN Number(0 - DigitsValue(digits, 0))
       ELSE Number(DigitsValue(digits, 0))

(* env?.KEY: the empty text when env is undefined or has no such key *)
EnvGet(env, key) == IF key \in DOMAIN env THEN env[key] ELSE <<>>

(* Mutant: the parsed value is used whatever it is *)
getWebSearchConfigNoFallback(env) ==
    LET site == EnvGet(env, "WEB_SEARCH_NUM_OF_SITE")
        word == EnvGet(env, "WEB_SEARCH_MAX_WORD")
        numOfSite == IF site # <<>> THEN parseInt(site) ELSE Number(DEFAULT_NUM_OF_SITE)
        maxWord == IF word # <<>> THEN parseInt(word) ELSE Number(DEFAULT_MAX_WORD)
    IN [webSearch |-> TRUE, numOfSite |-> numOfSite.n, maxWord |-> maxWord.n]

(* Lines 82-99 *)
getWebSearchConfig(env) ==
    LET site == EnvGet(env, "WEB_SEARCH_NUM_OF_SITE")
        word == EnvGet(env, "WEB_SEARCH_MAX_WORD")
        numOfSite == IF site # <<>> THEN parseInt(site) ELSE Number(DEFAULT_NUM_OF_SITE)
        maxWord == IF word # <<>> THEN parseInt(word) ELSE Number(DEFAULT_MAX_WORD)
    IN [webSearch |-> TRUE,
        numOfSite |-> IF numOfSite.nan \/ numOfSite.n <= 0
                      THEN DEFAULT_NUM_OF_SITE ELSE numOfSite.n,
        maxWord |-> IF maxWord.nan \/ maxWord.n <= 0
                    THEN DEFAULT_MAX_WORD ELSE maxWord.n]

(* Lines 104-131.  A result has a webSearchConfig field only when the     *)
(* configuration is attached. *)
parseAndGetConfig(modelName, env) ==
    LET parseResult == parseModelName(modelName)
    IN IF ~parseResult.isValid
       THEN [cleanModel |-> <<>>, error |-> parseResult.error]
       ELSE IF parseResult.hasOnlineSuffix
       THEN [cleanModel |-> parseResult.originalModel,
             webSearchConfig |-> getWebSearchConfig(env)]
       ELSE [cleanModel |-> parseResult.originalModel]

(* The values of an environment variable *)
EnvTexts == {<<>>, <<"3">>, <<"0">>, <<"-", "3">>, <<"x">>, <<"3", "x">>,
             <<"1", "2">>, <<" ", "7">>, <<"3", ".", "7">>, <<"+", "4">>}
EnvKeys == {"WEB_SEARCH_NUM_OF_SITE", "WEB_SEARCH_MAX_WORD"}
Envs == {Undefined} \cup UNION {[keys -> EnvTexts] : keys \in SUBSET EnvKeys}

ConfigNames == {Null, Str(<<>>), Str(<<"g">>), Str(<<" ", "g">> \o ONLINE_SUFFIX),
                Str(ONLINE_SUFFIX), Str(<<"a", ":", "b">>),
                Str(<<"g", ":">> \o ONLINE_SUFFIX)}

ConfigInit ==
    /\ fncall \in [fn : {"parseAndGetConfig"}, modelName : ConfigNames, env : Envs,
                   pc : {"called"}, out : {Undefined}]
    /\ RegAtRest /\ LimiterAtRest /\ PmAtRest /\ SendAtRest /\ BuildAtRest /\ DecAtRest /\ RelayAtRest

RunParseAndGetConfig ==
    /\ fncall.pc = "called"
    /\ fncall' = [fncall EXCEPT !.pc = "returned",
                                !.out = parseAndGetConfig(fncall.modelName, fncall.env)]
    /\ UNCHANGED notCall

ConfigNext == RunParseAndGetConfig

ConfigSpec == ConfigInit /\ [][ConfigNext]_vars

(* The call of parseAndGetConfig has returned *)
ConfigReturned ==
    /\ fncall # <<>>
    /\ fncall.fn = "parseAndGetConfig"
    /\ fncall.pc = "returned"

(* The name carried the ':online' suffix: it is a string that ends in     *)
(* ':online' once its white space is removed, with something before it *)
CarriesOnline(name) ==
    /\ IsString(name)
    /\ \E t \in Trimmed(name.s) : EndsInOnline(t) /\ Len(t) > 7

(* The text is a positive decimal integer, with an optional '+' sign *)
IsPositiveInteger(text) ==
    LET digits == IF text # <<>> /\ Head(text) = "+" THEN Tail(text) ELSE text
    IN /\ digits # <<>>
       /\ \A i \in 1..Len(digits) : IsDigit(digits[i])
       /\ \E i \in 1..Len(digits) : digits[i] # "0"

(* C23: parseAndGetConfig attaches a WebSearchConfig exactly when the     *)
(* name carried ':online'; the config has webSearch = true and positive   *)
(* integer limits: the override when it is a positive integer, and the    *)
(* defaults 1 and 500 when the override is absent, not numeric or not     *)
(* positive. *)
C23_WebSearchConfigAttached ==
    ConfigReturned =>
       LET out == fncall.out
           site == EnvGet(fncall.env, "WEB_SEARCH_NUM_OF_SITE")
           word == EnvGet(fncall.env, "WEB_SEARCH_MAX_WORD")
       IN /\ ("webSearchConfig" \in DOMAIN out) <=> CarriesOnline(fncall.modelName)
          /\ "webSearchConfig" \in DOMAIN out =>
                LET config == out.webSearchConfig
                IN /\ config.webSearch
                   /\ config.numOfSite \in Nat \ {0}
                   /\ config.maxWord \in Nat \ {0}
                   /\ IsPositiveInteger(site) => Number(config.numOfSite) = parseInt(site)
                   /\ IsPositiveInteger(word) => Number(config.maxWord) = parseInt(word)
                   /\ (site # <<>> /\ ~parseInt(site).nan /\ parseInt(site).n > 0) =>
                         config.numOfSite = parseInt(site).n
                   /\ (word # <<>> /\ ~parseInt(word).nan /\ parseInt(word).n > 0) =>
                         config.maxWord = parseInt(word).n
                   /\ (site = <<>> \/ parseInt(site).nan \/ parseInt(site).n <= 0) =>
                         config.numOfSite = 1
                   /\ (word = <<>> \/ parseInt(word).nan \/ parseInt(word).n <= 0) =>
                         config.maxWord = 500

(* An ':online' name with one override that is a positive integer and one *)
(* that is not positive *)
C23_Witness ==
    /\ ConfigReturned
    /\ fncall.modelName = Str(<<" ", "g">> \o ONLINE_SUFFIX)
    /\ fncall.env = [WEB_SEARCH_NUM_OF_SITE |-> <<"1", "2">>,
                     WEB_SEARCH_MAX_WORD |-> <<"-", "3">>]
    /\ fncall.out.webSearchConfig = [webSearch |-> TRUE, numOfSite |-> 12, maxWord |-> 500]

-----------------------------------------------------------------------------
(* processMessagesWithImageCheck.  Every object carries the reference ref *)
(* it is known by: two objects are the same object when their references  *)
(* are equal.  A string is no object: its reference is 0. *)

(* The reference of the object allocated in place of the object ref *)
Fresh(ref) == 1000 + ref

(* An input batch: the array of messages is object 1, message k is object *)
(* 10k, its content array 10k + 1, and item j of it 10k + 1 + j *)
PartKinds == {[type |-> "text", text |-> "look", url |-> "", detail |-> ""],
              [type |-> "image_url", text |-> "", url |-> "http://a/1.png", detail |-> ""],
              [type |-> "image_url", text |-> "", url |-> "http://b/2.png", detail |-> "high"],
              [type |-> "image_url", text |-> "", url |-> "", detail |-> ""]}

(* Stands for a content that is the string "hi" *)
StringPart == [type |-> "string", text |-> "hi", url |-> "", detail |-> ""]

ItemObject(ref, part) ==
    [ref |-> ref, type |-> part.type, text |-> part.text, url |-> part.url,
     detail |-> part.detail]

ContentOf(ref, parts) ==
    IF parts = <<StringPart>>
    THEN [ref |-> 0, isArray |-> FALSE, text |-> "hi", items |-> <<>>]
    ELSE [ref |-> ref, isArray |-> TRUE, text |-> "",
          items |-> [j \in 1..Len(parts) |-> ItemObject(ref + j, parts[j])]]

MessageObject(k, parts) ==
    [ref |-> 10 * k, role |-> IF k = 1 THEN "user" ELSE "assistant",
     content |-> ContentOf(10 * k + 1, parts),
     name |-> IF k = 1 THEN "bob" ELSE ""]

(* The batches: none, one message, or two of which the first is short *)
PartLists == {<<StringPart>>} \cup SeqsUpTo(PartKinds, MaxParts)
ShortPartLists == {<<StringPart>>} \cup {<<part>> : part \in PartKinds}
MessageArrays ==
    {[ref |-> 1, items |-> [k \in 1..Len(batch) |-> MessageObject(k, batch[k])]] :
        batch \in {<<>>} \cup {<<parts>> : parts \in PartLists}
                  \cup {<<first, parts>> : first \in ShortPartLists, parts \in PartLists}}

(* Lines 104-114: content.map; an image_url item becomes a new object     *)
(* with type and image_url.url only, any other item is returned as it is *)
NormalizedContent(content) ==
    [ref |-> Fresh(content.ref), isArray |-> TRUE, text |-> "",
     items |-> [j \in 1..Len(content.items) |->
                  LET item == content.items[j]
                  IN IF item.type = "image_url"
                     THEN [ref |-> Fresh(item.ref), type |-> "image_url", text |-> "",
                           url |-> item.url, detail |-> ""]
                     ELSE item]]

(* Lines 98-119: the callback of messages.map *)
ProcessedMessage(message) ==
    IF message.content.isArray /\ extractImageFromContent(message.content.items) # ""
    THEN [ref |-> Fresh(message.ref), role |-> message.role,
          content |-> NormalizedContent(message.content), name |-> message.name]
    ELSE message

(* Mutant: the image parts are not normalized *)
processMessagesKeepsImageParts(messages) ==
    [processedMessages |-> [ref |-> Fresh(messages.ref), items |-> messages.items],
     hasImages |-> hasImages(messages.items),
     messages |-> messages]

(* Lines 92-122.  messages.map allocates the array it returns; messages   *)
(* is the argument as the call leaves it. *)
processMessagesWithImageCheck(messages) ==
    [processedMessages |->
        [ref |-> Fresh(messages.ref),
         items |-> [k \in 1..Len(messages.items) |-> ProcessedMessage(messages.items[k])]],
     hasImages |-> hasImages(messages.items),
     messages |-> messages]

MessagesInit ==
    /\ fncall \in [fn : {"processMessagesWithImageCheck"}, given : MessageArrays,
                   messages : MessageArrays, pc : {"called"}, out : {Undefined}]
    /\ fncall.given = fncall.messages
    /\ RegAtRest /\ LimiterAtRest /\ PmAtRest /\ SendAtRest /\ BuildAtRest /\ DecAtRest /\ RelayAtRest

RunProcessMessages ==
    /\ fncall.pc = "called"
    /\ LET result == processMessagesWithImageCheck(fncall.messages)
       IN fncall' = [fncall EXCEPT
                        !.pc = "returned",
                        !.messages = result.messages,
                        !.out = [processedMessages |-> result.processedMessages,
                                 hasImages |-> result.hasImages]]
    /\ UNCHANGED notCall

MessagesNext == RunProcessMessages

MessagesSpec == MessagesInit /\ [][MessagesNext]_vars

(* The call of processMessagesWithImageCheck has returned *)
MessagesReturned ==
    /\ fncall # <<>>
    /\ fncall.fn = "processMessagesWithImageCheck"
    /\ fncall.pc = "returned"

(* The message holds an image part *)
HasImagePart(message) ==
    /\ message.content.isArray
    /\ \E j \in 1..Len(message.content.items) : message.content.items[j].type = "image_url"

AllText(messages) == \A k \in 1..Len(messages.items) : ~HasImagePart(messages.items[k])

(* C24: for a batch in which no message holds an image part, the call     *)
(* returns the very sequence object it was given, with hasImages = false, *)
(* and leaves every input message as it was. *)
C24_AllTextBatchReturnedAsGiven ==
    (MessagesReturned /\ AllText(fncall.given)) =>
       /\ fncall.out.processedMessages.ref = fncall.given.ref
       /\ fncall.out.processedMessages = fncall.given
       /\ ~fncall.out.hasImages
       /\ fncall.messages = fncall.given

(* What holds of such a batch: the returned sequence holds the very       *)
(* message objects it was given, in their order, hasImages is false and   *)
(* the input is as it was; only the array object itself is another one *)
AllTextBatchSameMessages ==
    (MessagesReturned /\ AllText(fncall.given)) =>
       /\ fncall.out.processedMessages.items = fncall.given.items
       /\ ~fncall.out.hasImages
       /\ fncall.messages = fncall.given

(* The message holds an image part that carries a url *)
HasImageUrl(message) ==
    /\ message.content.isArray
    /\ \E j \in 1..Len(message.content.items) :
          /\ message.content.items[j].type = "image_url"
          /\ message.content.items[j].url # ""

-----------------------------------------------------------------------------
(* formatConversationHistory as a function of its two arguments *)

FormatRoles == {"system", "user", "assistant", "tool"}
FormatContents ==
    {StringContent("hi"), StringContent(""), ArrayContent(<<>>),
     ArrayContent(<<TextItem("look")>>), ArrayContent(<<ImageItem("http://a/1.png")>>),
     ArrayContent(<<TextItem("look"), ImageItem("http://a/1.png"), TextItem("more")>>)}
FormatMessageSet == {Message(role, content) : role \in FormatRoles, content \in FormatContents}

FormatInit ==
    /\ fncall \in [fn : {"formatConversationHistory"},
                   messages : SeqsUpTo(FormatMessageSet, MaxLen),
                   newInput : {"", "and then?"}, pc : {"called"}, out : {Undefined}]
    /\ RegAtRest /\ LimiterAtRest /\ PmAtRest /\ SendAtRest /\ BuildAtRest /\ DecAtRest /\ RelayAtRest

RunFormatConversationHistory ==
    /\ fncall.pc = "called"
    /\ fncall' = [fncall EXCEPT
                     !.pc = "returned",
                     !.out = formatConversationHistory(fncall.messages, fncall.newInput)]
    /\ UNCHANGED notCall

FormatNext == RunFormatConversationHistory

FormatSpec == FormatInit /\ [][FormatNext]_vars

(* The call of formatConversationHistory has returned *)
FormatReturned ==
    /\ fncall # <<>>
    /\ fncall.fn = "formatConversationHistory"
    /\ fncall.pc = "returned"

RolePrefix == [system |-> "System: ", user |-> "Human: ", assistant |-> "Assistant: "]

(* The entry of one message: prefix, text, blank line; nothing for a role *)
(* that is none of the three *)
TranscriptEntry(message) ==
    IF message.role \in DOMAIN RolePrefix
    THEN <<RolePrefix[message.role]>> \o extractTextFromContent(message.content)
         \o <<"\n\n">>
    ELSE <<>>

(* C26: the transcript is the entries of the messages in input order, one *)
(* per message of role system, user or assistant, prefixed 'System: ',    *)
(* 'Human: ' or 'Assistant: ' and followed by a blank line; a message of  *)
(* any other role adds nothing; a non-empty new input comes last as a     *)
(* 'Human: ' entry. *)
C26_TranscriptInOrder ==
    FormatReturned =>
       LET messages == fncall.messages
           entries == [k \in 1..Len(messages) |-> TranscriptEntry(messages[k])]
           last == IF fncall.newInput = "" THEN <<>>
                   ELSE <<"Human: ", fncall.newInput, "\n\n">>
       IN /\ fncall.out = Flatten(entries) \o last
          /\ \A k \in 1..Len(messages) :
                messages[k].role \notin {"system", "user", "assistant"} =>
                   entries[k] = <<>>

(* A tool message followed by an assistant message, with a new input:     *)
(* the tool message adds nothing and the new input is last *)
C26_Witness ==
    /\ FormatReturned
    /\ fncall.newInput = "and then?"
    /\ Len(fncall.messages) = 2
    /\ fncall.messages[1] = Message("tool", StringContent("hi"))
    /\ fncall.messages[2] = Message("assistant", ArrayContent(<<TextItem("look")>>))
    /\ fncall.out = <<"Assistant: ", "look", "\n\n", "Human: ", "and then?", "\n\n">>

-----------------------------------------------------------------------------
(* Token estimator: calculateTokens and estimateTokenCount                *)
(* (model-validation.ts 73-145).  encode is the tokenizer of the          *)
(* gpt-tokenizer package: for the text at hand it throws or it answers a  *)
(* sequence of some length. *)

MaxTextLength == 5

CHAR_TO_TOKEN_RATIO == 4

(* text.split(/\s+/): the pieces between the runs of white space; cur is  *)
(* the piece being read and inRun tells that the last character was white *)
(* space.  The split of the empty text is the one empty piece. *)
RECURSIVE SplitOnWhiteSpace(_, _, _)
SplitOnWhiteSpace(s, cur, inRun) ==
    IF s = <<>> THEN <<cur>>
    ELSE IF Head(s) \in WhiteSpace
         THEN IF inRun THEN SplitOnWhiteSpace(Tail(s), cur, TRUE)
              ELSE <<cur>> \o SplitOnWhiteSpace(Tail(s), <<>>, TRUE)
         ELSE SplitOnWhiteSpace(Tail(s), Append(cur, Head(s)), FALSE)

(* Math.ceil(n * 0.75) and Math.ceil(n / d) *)
CeilThreeQuarters(n) == (3 * n + 3) \div 4
CeilDiv(n, d) == (n + d - 1) \div d

Max(a, b) == IF a >= b THEN a ELSE b

(* Lines 132-145 *)
estimateTokenCount(text) ==
    LET words == Len(SplitOnWhiteSpace(trim(text), <<>>, FALSE))
        chars == Len(text)
        wordBasedEstimate == CeilThreeQuarters(words)
        charBasedEstimate == CeilDiv(chars, CHAR_TO_TOKEN_RATIO)
    IN Max(wordBasedEstimate, charBasedEstimate)

(* Lines 75-82: encode(text).length, or the estimate when encode throws *)
calculateTokens(text, encode) ==
    IF encode.throws THEN estimateTokenCount(text) ELSE encode.length

(* Ten words and fifty characters *)
TenWords ==
    LET word == <<"a", "a", "a", "a", " ">>
    IN word \o word \o word \o word \o word \o word \o word \o word \o word
       \o <<"a", "a", "a", "a", "a">>

TokenTexts == SeqsUpTo({"a", " "}, MaxTextLength) \cup {TenWords}
EncodeOutcomes == {[throws |-> TRUE, length |-> 0], [throws |-> FALSE, length |-> 0],
                   [throws |-> FALSE, length |-> 3]}

TokensInit ==
    /\ fncall \in [fn : {"calculateTokens"}, text : TokenTexts, encode : EncodeOutcomes,
                   pc : {"called"}, out : {Undefined}]
    /\ RegAtRest /\ LimiterAtRest /\ PmAtRest /\ SendAtRest /\ BuildAtRest /\ DecAtRest /\ RelayAtRest

RunCalculateTokens ==
    /\ fncall.pc = "called"
    /\ fncall' = [fncall EXCEPT !.pc = "returned",
                                !.out = calculateTokens(fncall.text, fncall.encode)]
    /\ UNCHANGED notCall

TokensNext == RunCalculateTokens

TokensSpec == TokensInit /\ [][TokensNext]_vars

(* The call of calculateTokens has returned *)
TokensReturned ==
    /\ fncall # <<>>
    /\ fncall.fn = "calculateTokens"
    /\ fncall.pc = "returned"

(* The words of a text: its maximal runs of characters that are not white *)
(* space, counted by where they start *)
WordCount(text) ==
    Cardinality({i \in 1..Len(text) :
                    /\ text[i] \notin WhiteSpace
                    /\ i = 1 \/ text[i - 1] \in WhiteSpace})

(* max(ceil(wordCount * 0.75), ceil(charCount / 4)) *)
FallbackFormula(text) ==
    LET byWords == CHOOSE n \in 0..Len(text) : 4 * n >= 3 * WordCount(text)
                                              /\ 4 * (n - 1) < 3 * WordCount(text)
        byChars == CHOOSE n \in 0..Len(text) : 4 * n >= Len(text) /\ 4 * (n - 1) < Len(text)
    IN IF byWords >= byChars THEN byWords ELSE byChars

(* C29: calculateTokens returns the tokenizer count whenever the          *)
(* tokenizer succeeds and the fallback only when it fails; the fallback   *)
(* is max(ceil(wordCount * 0.75), ceil(charCount / 4)), 13 for ten words  *)
(* and fifty characters. *)
C29_TokenizerOrFallback ==
    TokensReturned =>
       /\ ~fncall.encode.throws => fncall.out = fncall.encode.length
       /\ fncall.encode.throws => fncall.out = FallbackFormula(fncall.text)
       /\ (fncall.encode.throws /\ fncall.text = TenWords) => fncall.out = 13

(* What holds: the tokenizer count is returned whenever the tokenizer     *)
(* succeeds, and the fallback is the formula for every text but the empty *)
(* one *)
FallbackOfNonEmptyText ==
    TokensReturned =>
       /\ ~fncall.encode.throws => fncall.out = fncall.encode.length
       /\ (fncall.encode.throws /\ fncall.text # <<>>) =>
             fncall.out = FallbackFormula(fncall.text)
       /\ (fncall.encode.throws /\ fncall.text = TenWords) => fncall.out = 13

-----------------------------------------------------------------------------
(* The non-streaming transformers: ChatHandler.transformToOpenAIFormat    *)
(* (part_005 124-150) with extractOneMinContent (utils/response.ts),      *)
(* ResponseHandler.transformToResponsesFormat (responses.ts 476-523) and  *)
(* MessagesHandler.transformToAnthropicFormat (part_006 363-391).         *)
(* The upstream result data has aiRecord telling that                     *)
(* aiRecord.aiRecordDetail.resultObject is there, resultObject its items, *)
(* content (empty when absent) and usage (a sequence of zero or one       *)
(* record).  Ids and time stamps are left out of the outputs. *)

NoResponseGenerated == <<"No response generated">>

(* data.aiRecord?.aiRecordDetail?.resultObject?.[0], empty when undefined *)
FirstResult(data) ==
    IF data.aiRecord /\ data.resultObject # <<>> THEN data.resultObject[1] ELSE <<>>

(* data.usage?.field || 0 *)
UsageField(data, field) == IF data.usage = <<>> THEN 0 ELSE data.usage[1][field]

(* Mutant: content is looked at before resultObject[0] *)
extractOneMinContentFirst(data) ==
    IF data.content # <<>> THEN data.content
    ELSE IF FirstResult(data) # <<>> THEN FirstResult(data)
    ELSE NoResponseGenerated

(* utils/response.ts 14-20 *)
extractOneMinContent(data) ==
    IF FirstResult(data) # <<>> THEN FirstResult(data)
    ELSE IF data.content # <<>> THEN data.content
    ELSE NoResponseGenerated

transformToOpenAIFormat(data, model) ==
    [object |-> "chat.completion", model |-> model,
     choices |-> <<[index |-> 0,
                    message |-> [role |-> "assistant",
                                 content |-> extractOneMinContent(data)],
                    finish_reason |-> "stop"]>>,
     usage |-> [prompt_tokens |-> UsageField(data, "prompt_tokens"),
                completion_tokens |-> UsageField(data, "completion_tokens"),
                total_tokens |-> UsageField(data, "total_tokens")]]

(* JSON.parse succeeds on the text.  The texts at hand are made of white  *)
(* space, the digit 1, brackets and x: the JSON values among them are the *)
(* numbers and the arrays of at most one value. *)
RECURSIVE JsonParses(_)
JsonParses(text) ==
    LET core == trim(text)
    IN /\ core # <<>>
       /\ \/ \A i \in 1..Len(core) : core[i] = "1"
          \/ /\ Len(core) >= 2
             /\ core[1] = "["
             /\ core[Len(core)] = "]"
             /\ LET inner == trim(SubSeq(core, 2, Len(core) - 1))
                IN inner = <<>> \/ JsonParses(inner)

(* JSON.stringify(JSON.parse(text)) for such a value: the text without    *)
(* its white space *)
JsonReserialized(text) == SelectSeq(text, LAMBDA c : c \notin WhiteSpace)

IsJsonFormat(responseFormat) == responseFormat \in {"json_object", "json_schema"}

(* responses.ts 476-523 *)
transformToResponsesFormat(data, model, responseFormat) ==
    LET first == IF FirstResult(data) # <<>> THEN FirstResult(data)
                 ELSE IF data.content # <<>> THEN data.content
                 ELSE NoResponseGenerated
        content == IF IsJsonFormat(responseFormat) /\ JsonParses(first)
                   THEN JsonReserialized(first) ELSE first
    IN [object |-> "response", model |-> model,
        output |-> <<[type |-> "message", role |-> "assistant",
                      content |-> <<[type |-> "output_text", text |-> content]>>,
                      status |-> "completed"]>>,
        status |-> "completed",
        usage |-> [input_tokens |-> UsageField(data, "prompt_tokens"),
                   output_tokens |-> UsageField(data, "completion_tokens"),
                   total_tokens |-> UsageField(data, "total_tokens")]]

(* part_006 363-391.  inputText is extractAllMessageText(messages); a     *)
(* token count of 0 in usage is replaced by the count of calculateTokens *)
transformToAnthropicFormat(data, model, inputText, encode) ==
    LET content == IF FirstResult(data) # <<>> THEN FirstResult(data)
                   ELSE IF data.content # <<>> THEN data.content
                   ELSE NoResponseGenerated
        inputTokens == IF UsageField(data, "prompt_tokens") # 0
                       THEN UsageField(data, "prompt_tokens")
                       ELSE calculateTokens(inputText, encode)
        outputTokens == IF UsageField(data, "completion_tokens") # 0
                        THEN UsageField(data, "completion_tokens")
                        ELSE calculateTokens(content, encode)
    IN [type |-> "message", role |-> "assistant",
        content |-> <<[type |-> "text", text |-> content]>>,
        model |-> model, stop_reason |-> "end_turn",
        usage |-> [input_tokens |-> inputTokens, output_tokens |-> outputTokens]]

JsonChars == {" ", "1", "[", "]", "x"}
ResultTexts == SeqsUpTo(JsonChars, MaxText)
UpstreamResults ==
    [aiRecord : {TRUE}, resultObject : {<<>>} \cup {<<text>> : text \in ResultTexts},
     content : {<<>>, <<"x">>, <<" ", "1">>},
     usage : {<<>>, <<[prompt_tokens |-> 5, completion_tokens |-> 0, total_tokens |-> 5]>>}]
    \cup
    [aiRecord : {FALSE}, resultObject : {<<>>},
     content : {<<>>, <<"x">>, <<" ", "1">>},
     usage : {<<>>, <<[prompt_tokens |-> 5, completion_tokens |-> 0, total_tokens |-> 5]>>}]
ResponseFormats == {"", "text", "json_object", "json_schema"}

NotTransformed == [chat |-> <<>>, responses |-> <<>>, anthropic |-> <<>>]

TransformInit ==
    /\ fncall \in [fn : {"transform"}, data : UpstreamResults, model : {"gpt-4o"},
                   responseFormat : ResponseFormats, inputText : {<<"h", "i">>},
                   encode : {[throws |-> TRUE, length |-> 0], [throws |-> FALSE, length |-> 3]},
                   pc : {"called"}, out : {NotTransformed}]
    /\ RegAtRest /\ LimiterAtRest /\ PmAtRest /\ SendAtRest /\ BuildAtRest /\ DecAtRest /\ RelayAtRest

RunTransformToOpenAIFormat ==
    /\ fncall.fn = "transform"
    /\ fncall.out.chat = <<>>
    /\ fncall' = [fncall EXCEPT
                     !.out.chat = <<transformToOpenAIFormat(fncall.data, fncall.model)>>]
    /\ UNCHANGED notCall

RunTransformToResponsesFormat ==
    /\ fncall.fn = "transform"
    /\ fncall.out.responses = <<>>
    /\ fncall' = [fncall EXCEPT
                     !.out.responses =
                        <<transformToResponsesFormat(fncall.data, fncall.model,
                                                     fncall.responseFormat)>>]
    /\ UNCHANGED notCall

RunTransformToAnthropicFormat ==
    /\ fncall.fn = "transform"
    /\ fncall.out.anthropic = <<>>
    /\ fncall' = [fncall EXCEPT
                     !.out.anthropic =
                        <<transformToAnthropicFormat(fncall.data, fncall.model,
                                                     fncall.inputText, fncall.encode)>>]
    /\ UNCHANGED notCall

TransformNext ==
    \/ RunTransformToOpenAIFormat
    \/ RunTransformToResponsesFormat
    \/ RunTransformToAnthropicFormat

TransformSpec == TransformInit /\ [][TransformNext]_vars

(* The three transformers have returned for the same upstream result *)
Transformed ==
    /\ fncall # <<>>
    /\ fncall.fn = "transform"
    /\ fncall.out.chat # <<>>
    /\ fncall.out.responses # <<>>
    /\ fncall.out.anthropic # <<>>

ChatText == fncall.out.chat[1].choices[1].message.content
ResponsesText == fncall.out.responses[1].output[1].content[1].text
AnthropicText == fncall.out.anthropic[1].content[1].text

(* resultObject[0] if present, else content, else the literal *)
PriorityText(data) ==
    IF data.aiRecord /\ Len(data.resultObject) >= 1 /\ Len(data.resultObject[1]) > 0
    THEN data.resultObject[1]
    ELSE IF Len(data.content) > 0 THEN data.content
    ELSE <<"No response generated">>

(* C27 as stated: the three transformers carry the same text, the one the *)
(* priority resultObject[0], content, literal gives, and it is not empty *)
C27_SameTextEverywhere ==
    Transformed =>
       /\ ChatText = PriorityText(fncall.data)
       /\ ResponsesText = PriorityText(fncall.data)
       /\ AnthropicText = PriorityText(fncall.data)
       /\ ChatText # <<>>

(* C27: the three transformers take the text from resultObject[0] if      *)
(* present, else content, else 'No response generated', and the text they *)
(* emit is never empty; the chat and Anthropic transformers carry that    *)
(* text, and so does the Responses transformer unless the response format *)
(* is json_object or json_schema and the text parses as JSON: it then     *)
(* carries the text serialized again, without its white space. *)
C27_SameSourceSamePriority ==
    Transformed =>
       LET text == PriorityText(fncall.data)
           json == fncall.responseFormat \in {"json_object", "json_schema"}
                   /\ JsonParses(text)
       IN /\ ChatText = text
          /\ AnthropicText = text
          /\ ~json => ResponsesText = text
          /\ json => /\ \A i \in 1..Len(ResponsesText) : ResponsesText[i] \notin WhiteSpace
                     /\ ResponsesText = SelectSeq(text, LAMBDA c : c \notin WhiteSpace)
          /\ ChatText # <<>> /\ ResponsesText # <<>> /\ AnthropicText # <<>>

(* resultObject[0] is ' 1' and content is 'x': all three take             *)
(* resultObject[0], and under json_object the Responses text is '1' *)
C27_Witness ==
    /\ Transformed
    /\ fncall.responseFormat = "json_object"
    /\ fncall.data.resultObject = <<<<" ", "1">>>>
    /\ fncall.data.content = <<"x">>
    /\ ChatText = <<" ", "1">>
    /\ AnthropicText = <<" ", "1">>
    /\ ResponsesText = <<"1">>

-----------------------------------------------------------------------------
(* ImageHandler.transformToOpenAIFormat (handlers/images.ts 52-66).       *)
(* resultObject is data.aiRecord?.aiRecordDetail?.resultObject as a       *)
(* tagged value: undefined when a link of the chain is absent. *)

UndefinedValue == [type |-> "undefined"]

(* new ApiError("No image URLs found in API response", 500): the class    *)
(* and the arguments it is built with *)
NoImageUrlsError ==
    [kind |-> "thrown",
     error |-> [name |-> "ApiError", message |-> "No image URLs found in API response",
                status |-> 500],
     value |-> Null]

ImagesReturned(value) == [kind |-> "returned", error |-> Null, value |-> value]

(* Mutant: an empty list is not looked for *)
transformImagesNoEmptyCheck(resultObject, nowMs) ==
    IF ~IsArray(resultObject)
    THEN NoImageUrlsError
    ELSE ImagesReturned(
            [created |-> nowMs \div 1000,
             data |-> [k \in 1..Len(resultObject.items) |-> [url |-> resultObject.items[k]]]])

(* Lines 52-66; nowMs is Date.now().  The handler of the chat completions *)
(* has a method of the same name, transformToOpenAIFormat above. *)
transformImagesToOpenAIFormat(resultObject, nowMs) ==
    LET imageUrls == resultObject
    IN IF \/ imageUrls.type \in {"undefined", "null"}
          \/ (IsString(imageUrls) /\ imageUrls.s = <<>>)
          \/ ~IsArray(imageUrls)
          \/ Len(imageUrls.items) = 0
       THEN NoImageUrlsError
       ELSE ImagesReturned(
               [created |-> nowMs \div 1000,
                data |-> [k \in 1..Len(imageUrls.items) |-> [url |-> imageUrls.items[k]]]])

ImageUrls == {"http://x/1.png", "http://x/2.png", "http://y/3.png", ""}
ResultObjects ==
    {UndefinedValue, Null, Str(<<>>), Str(<<"http://x/1.png">>), Obj([url |-> "http://x/1.png"])}
    \cup {Arr(urls) : urls \in SeqsUpTo(ImageUrls, MaxLen)}

ImagesInit ==
    /\ fncall \in [fn : {"transformImagesToOpenAIFormat"}, resultObject : ResultObjects,
                   nowMs : {0, 1500, 2999}, pc : {"called"}, out : {Undefined}]
    /\ RegAtRest /\ LimiterAtRest /\ PmAtRest /\ SendAtRest /\ BuildAtRest /\ DecAtRest /\ RelayAtRest

RunTransformImages ==
    /\ fncall.pc = "called"
    /\ fncall' = [fncall EXCEPT
                     !.pc = "returned",
                     !.out = transformImagesToOpenAIFormat(fncall.resultObject, fncall.nowMs)]
    /\ UNCHANGED notCall

ImagesNext == RunTransformImages

ImagesSpec == ImagesInit /\ [][ImagesNext]_vars

(* The call of the image transformer has ended *)
ImagesEnded ==
    /\ fncall # <<>>
    /\ fncall.fn = "transformImagesToOpenAIFormat"
    /\ fncall.pc = "returned"

(* C28: the image transformer raises a server error of status 500 when    *)
(* the result URL list is missing, not a list or empty; otherwise it      *)
(* returns one {url} entry per result URL in the same order.  It never    *)
(* returns an empty data list. *)
C28_NoUrlsIsServerError ==
    ImagesEnded =>
       LET given == fncall.resultObject
           isList == given.type = "array"
       IN /\ (~isList \/ given.items = <<>>) =>
                /\ fncall.out.kind = "thrown"
                /\ fncall.out.error.status = 500
          /\ (isList /\ given.items # <<>>) =>
                /\ fncall.out.kind = "returned"
                /\ Len(fncall.out.value.data) = Len(given.items)
                /\ \A k \in 1..Len(given.items) :
                      fncall.out.value.data[k] = [url |-> given.items[k]]
          /\ fncall.out.kind = "returned" => fncall.out.value.data # <<>>
          /\ given = Arr(<<"http://x/1.png">>) =>
                fncall.out.value.data = <<[url |-> "http://x/1.png"]>>

(* The empty list was given and the error was raised *)
C28_Witness ==
    /\ ImagesEnded
    /\ fncall.resultObject = Arr(<<>>)
    /\ fncall.out.kind = "thrown"
    /\ fncall.out.error.status = 500

-----------------------------------------------------------------------------
(* The application of index.ts: the middleware chain errorHandler,        *)
(* corsMiddleware, cache warm-up, then the routes, with app.onError and   *)
(* app.notFound.  One request goes down the chain, layer by layer, until  *)
(* a layer throws or the route answers, then back up.  Hono's dispatch    *)
(* catches an Error thrown by a layer, keeps it in c.error and takes the  *)
(* response from the onError handler; the layers above then resume after  *)
(* their next(). *)

Layers == <<"errorHandler", "corsMiddleware", "warmUp", "route">>

(* The error classes of utils/errors and some built-in ones *)
TaxonomyErrors == {[name |-> "ValidationError", status |-> 400],
                   [name |-> "ApiError", status |-> 500],
                   [name |-> "RateLimitError", status |-> 429]}
OtherErrors == {[name |-> "TypeError", status |-> 0], [name |-> "Error", status |-> 0],
                [name |-> "SyntaxError", status |-> 0]}
NoError == [name |-> "", status |-> 0]

NoResponseYet == [status |-> 0, json |-> FALSE, body |-> <<>>]
JsonResponse(body, status) == [status |-> status, json |-> TRUE, body |-> <<body>>]

(* Mutant: the handler answers 500 with no body *)
onErrorEmptyBody(err) == [status |-> 500, json |-> FALSE, body |-> <<>>]

(* app.onError, lines 23-36 *)
onError(err) ==
    JsonResponse([error |-> [message |-> "Internal Server Error",
                             type |-> "internal_error",
                             param |-> Null,
                             code |-> "internal_error"]], 500)

(* app.notFound, lines 43-45 *)
notFound == JsonResponse([error |-> "Not Found"], 404)

(* middleware/error-handler after its next(): an error of the taxonomy is *)
(* answered in the structured shape with its own status, anything else is *)
(* left to the response of onError *)
errorHandler(error, res) ==
    IF error \in TaxonomyErrors
    THEN JsonResponse([error |-> [message |-> error.name, type |-> error.name,
                                  param |-> Null, code |-> Null]], error.status)
    ELSE res

Paths == {"/v1/chat/completions", "/v1/responses", "/v1/messages", "/v1/unknown"}

ServeInit ==
    /\ fncall \in [fn : {"fetch"}, path : Paths, throwAt : 0..Len(Layers),
                   thrown : TaxonomyErrors \cup OtherErrors \cup {NoError},
                   layer : {0}, phase : {"down"}, error : {NoError},
                   res : {NoResponseYet}]
    /\ (fncall.throwAt = 0) <=> (fncall.thrown = NoError)
    /\ RegAtRest /\ LimiterAtRest /\ PmAtRest /\ SendAtRest /\ BuildAtRest /\ DecAtRest /\ RelayAtRest

(* The dispatch calls the next layer, which runs up to its next() *)
EnterLayer ==
    /\ fncall.fn = "fetch"
    /\ fncall.phase = "down"
    /\ fncall.layer < Len(Layers)
    /\ fncall.layer = 0 \/ fncall.throwAt # fncall.layer
    /\ fncall' = [fncall EXCEPT !.layer = @ + 1]
    /\ UNCHANGED notCall

(* The layer throws: c.error = err and the response is that of onError *)
LayerThrows ==
    /\ fncall.fn = "fetch"
    /\ fncall.phase = "down"
    /\ fncall.layer >= 1
    /\ fncall.throwAt = fncall.layer
    /\ fncall' = [fncall EXCEPT !.phase = "up", !.layer = @ - 1,
                                !.error = fncall.thrown,
                                !.res = onError(fncall.thrown)]
    /\ UNCHANGED notCall

(* The route answers, or no route matches the path *)
RouteAnswers ==
    /\ fncall.fn = "fetch"
    /\ fncall.phase = "down"
    /\ fncall.layer = Len(Layers)
    /\ fncall.throwAt = 0
    /\ fncall' = [fncall EXCEPT
                     !.phase = "up", !.layer = @ - 1,
                     !.res = IF fncall.path = "/v1/unknown" THEN notFound
                             ELSE JsonResponse([object |-> "answer"], 200)]
    /\ UNCHANGED notCall

(* The layer resumes after its next() *)
LeaveLayer ==
    /\ fncall.fn = "fetch"
    /\ fncall.phase = "up"
    /\ fncall.layer >= 1
    /\ fncall' = [fncall EXCEPT
                     !.layer = @ - 1,
                     !.res = IF Layers[fncall.layer] = "errorHandler"
                             THEN errorHandler(fncall.error, fncall.res)
                             ELSE fncall.res]
    /\ UNCHANGED notCall

(* The response leaves the application *)
SendResponse ==
    /\ fncall.fn = "fetch"
    /\ fncall.phase = "up"
    /\ fncall.layer = 0
    /\ fncall' = [fncall EXCEPT !.phase = "sent"]
    /\ UNCHANGED notCall

ServeNext ==
    \/ EnterLayer
    \/ LayerThrows
    \/ RouteAnswers
    \/ LeaveLayer
    \/ SendResponse

ServeSpec == ServeInit /\ [][ServeNext]_vars

(* The request has been answered *)
Served ==
    /\ fncall # <<>>
    /\ fncall.fn = "fetch"
    /\ fncall.phase = "sent"

(* C30: an exception that no handler catches (one outside the error       *)
(* taxonomy, thrown by any layer) reaches the top-level handler and the   *)
(* request is answered by a structured JSON body with status 500; no      *)
(* request is answered with an empty body. *)
C30_UnhandledIsStructured500 ==
    /\ Served => fncall.res.json /\ fncall.res.body # <<>> /\ fncall.res.status # 0
    /\ (Served /\ fncall.thrown \in OtherErrors) =>
          /\ fncall.error = fncall.thrown
          /\ fncall.res.status = 500
          /\ fncall.res.json
          /\ DOMAIN fncall.res.body[1] = {"error"}
          /\ DOMAIN fncall.res.body[1].error = {"message", "type", "param", "code"}
          /\ fncall.res.body[1].error.message = "Internal Server Error"

(* A TypeError thrown by the route has been answered with status 500 *)
C30_Witness ==
    /\ Served
    /\ fncall.throwAt = 4
    /\ fncall.thrown.name = "TypeError"
    /\ fncall.res.status = 500

-----------------------------------------------------------------------------
(* A non-streaming chat completion, from the upstream call to the         *)
(* response of the route: BaseTextHandler.sendNonStreamingRequest         *)
(* (handlers/base.ts 22-45), ChatHandler.handleNonStreamingChat           *)
(* (part_005 69-88), createSuccessResponse (utils/response.ts 47-57) and  *)
(* the route of routes/chat.ts 12-38.  The call of sendChatRequest is the *)
(* one of the section above, with isStreaming false. *)

(* response.json(): the body named b is the JSON text of a result whose   *)
(* resultObject[0] is b *)
ResponseJson(response) ==
    [aiRecord |-> TRUE, resultObject |-> <<<<response.body>>>>, content |-> <<>>,
     usage |-> <<>>]

(* utils/response.ts 47-57, with the default status *)
createSuccessResponse(data) ==
    [status |-> 200, statusText |-> "",
     headers |-> ("Content-Type" :> "application/json"),
     body |-> Stringify(data)]

(* routes/chat.ts 33-37: new Response(response.body, {status, statusText, *)
(* headers: response.headers}) *)
RouteResponse(response) ==
    [status |-> response.status, statusText |-> response.statusText,
     headers |-> response.headers, body |-> response.body]

ChatInit ==
    /\ sendPc = "call"
    /\ sendArgs \in [requestBody : RequestBodies, isStreaming : {FALSE},
                     apiKey : {"", "sk-1"}]
    /\ sendLog = <<>>
    /\ sendOut = <<>>
    /\ fncall = [fn |-> "handleNonStreamingChat", pc |-> "sending", model |-> "gpt-4o",
                 handled |-> NoResponse, thrown |-> <<>>, res |-> NoResponse]
    /\ RegAtRest /\ LimiterAtRest /\ PmAtRest /\ BuildAtRest /\ DecAtRest /\ RelayAtRest

(* base.ts 39-44 and part_005 86-87: sendChatRequest returned; the data   *)
(* is read, transformed and wrapped *)
HandlerReturns ==
    /\ fncall.fn = "handleNonStreamingChat"
    /\ fncall.pc = "sending"
    /\ sendPc = "done"
    /\ sendOut.kind = "returned"
    /\ LET data == ResponseJson(sendOut.response)
           openAIResponse == transformToOpenAIFormat(data, fncall.model)
       IN fncall' = [fncall EXCEPT
                        !.pc = "handled",
                        !.handled = createSuccessResponse(openAIResponse)]
    /\ UNCHANGED notCall

(* sendChatRequest threw: neither function catches, the route rejects *)
HandlerThrows ==
    /\ fncall.fn = "handleNonStreamingChat"
    /\ fncall.pc = "sending"
    /\ sendPc = "done"
    /\ sendOut.kind = "thrown"
    /\ fncall' = [fncall EXCEPT !.pc = "thrown", !.thrown = sendOut.message]
    /\ UNCHANGED notCall

(* routes/chat.ts 33-37 *)
RouteReturns ==
    /\ fncall.fn = "handleNonStreamingChat"
    /\ fncall.pc = "handled"
    /\ fncall' = [fncall EXCEPT !.pc = "answered", !.res = RouteResponse(fncall.handled)]
    /\ UNCHANGED notCall

ChatNext ==
    \/ SendFirst
    \/ \E response \in UpstreamResponses : FirstAnswered(response)
    \/ \E response \in UpstreamResponses : RetryAnswered(response)
    \/ FetchRejects
    \/ HandlerReturns
    \/ HandlerThrows
    \/ RouteReturns

ChatSpec == ChatInit /\ [][ChatNext]_vars

(* The request was answered from the response to the degradation retry *)
ServedThroughRetry ==
    /\ fncall # <<>>
    /\ fncall.fn = "handleNonStreamingChat"
    /\ fncall.pc = "answered"
    /\ Len(sendLog) = 2
    /\ HttpOk(sendLog[2].response)

(* C31: whenever a chat request was served through the web-search         *)
(* degradation retry, the HTTP response returned to the API client        *)
(* carries the header X-WebSearch-Degraded. *)
C31_ClientSeesDegradedHeader ==
    ServedThroughRetry =>
        /\ "X-WebSearch-Degraded" \in DOMAIN fncall.res.headers
        /\ fncall.res.headers["X-WebSearch-Degraded"] = "true"

(* What does hold: the response of sendChatRequest carries the header and *)
(* the client is answered 200 with the text of the retried response *)
DegradedAnswerWithoutHeader ==
    ServedThroughRetry =>
        /\ sendOut.response.headers["X-WebSearch-Degraded"] = "true"
        /\ fncall.res.status = 200
        /\ DOMAIN fncall.res.headers = {"Content-Type"}
        /\ fncall.res.body.value.choices[1].message.content = <<sendLog[2].response.body>>

-----------------------------------------------------------------------------
(* RateLimiter.checkRateLimit (constants/config.ts 42-89) for one client  *)
(* id.  Several requests of the client are checked at once, each by its   *)
(* own RateLimiter over the same RATE_LIMIT_STORE.  The limiter is built  *)
(* with a small config in place of RATE_LIMIT_CONFIG (180 requests and    *)
(* 100000 tokens per 60000 ms); time is counted in units of which a       *)
(* window holds windowMs. *)

NumChecks == 2
MaxClock == 2
windowMs == 2
maxRequests == 2
maxTokens == 3

Checks == 1..NumChecks
TokenCounts == {0, 2}

RateLimitRecord(requestCount, tokenCount, windowStart) ==
    [requestCount |-> requestCount, tokenCount |-> tokenCount, windowStart |-> windowStart]

(* Mutant: a denied check stores the record it looked at *)
checkRecordPutsOnDenial(existingRecord, nowMs, tokenCount) ==
    LET parsed == IF existingRecord # <<>> THEN existingRecord[1]
                  ELSE RateLimitRecord(0, 0, nowMs)
        record == IF nowMs - parsed.windowStart >= windowMs
                  THEN RateLimitRecord(0, 0, nowMs)
                  ELSE parsed
    IN IF record.requestCount >= maxRequests
       THEN [allowed |-> FALSE, put |-> TRUE, record |-> record]
       ELSE IF maxTokens # 0 /\ record.tokenCount + tokenCount > maxTokens
       THEN [allowed |-> FALSE, put |-> TRUE, record |-> record]
       ELSE [allowed |-> TRUE, put |-> TRUE,
             record |-> RateLimitRecord(record.requestCount + 1,
                                        record.tokenCount + tokenCount,
                                        record.windowStart)]

(* Lines 57-77, between the get and the put: the record parsed or made,   *)
(* the reset of an expired window, the two limits and the counters.       *)
(* existingRecord is empty for null, else it holds the stored record. *)
checkRecord(existingRecord, nowMs, tokenCount) ==
    LET parsed == IF existingRecord # <<>> THEN existingRecord[1]
                  ELSE RateLimitRecord(0, 0, nowMs)
        record == IF nowMs - parsed.windowStart >= windowMs
                  THEN RateLimitRecord(0, 0, nowMs)
                  ELSE parsed
    IN IF record.requestCount >= maxRequests
       THEN [allowed |-> FALSE, put |-> FALSE, record |-> record]
       ELSE IF maxTokens # 0 /\ record.tokenCount + tokenCount > maxTokens
       THEN [allowed |-> FALSE, put |-> FALSE, record |-> record]
       ELSE [allowed |-> TRUE, put |-> TRUE,
             record |-> RateLimitRecord(record.requestCount + 1,
                                        record.tokenCount + tokenCount,
                                        record.windowStart)]

NotChecked == [pc |-> "idle", now |-> 0, tokenCount |-> 0, record |-> <<>>,
               allowed |-> FALSE, out |-> "", wrote |-> FALSE]

(* entry is the value under the client id, empty when there is none;      *)
(* grants counts the allowed checks by the time they read; starts holds   *)
(* the windowStart values that were stored; overlapped and failed tell    *)
(* that two checks were under way at once and that the store failed.      *)
(* The store is empty, or holds the record of one request of the client   *)
(* that was allowed at time 0. *)
LimiterInit ==
    /\ \E hasStore \in BOOLEAN, earlier \in {<<>>} \cup {<<t>> : t \in TokenCounts} :
          /\ earlier # <<>> => hasStore
          /\ limiter = [clock |-> 0, hasStore |-> hasStore,
                        entry |-> IF earlier = <<>> THEN <<>>
                                  ELSE <<RateLimitRecord(1, earlier[1], 0)>>,
                        checks |-> [k \in Checks |-> NotChecked],
                        grants |-> [t \in 0..MaxClock |->
                                       IF t = 0 /\ earlier # <<>> THEN 1 ELSE 0],
                        starts |-> IF earlier = <<>> THEN {} ELSE {0},
                        overlapped |-> FALSE, failed |-> FALSE]
    /\ RegAtRest /\ PmAtRest /\ SendAtRest /\ BuildAtRest /\ DecAtRest /\ RelayAtRest
    /\ CallAtRest

UnderWay(k) == limiter.checks[k].pc \in {"get", "put"}

Granted(l, at) == [l EXCEPT !.grants[at] = @ + 1]

(* Lines 46-55: without a store the request is allowed; else the time is  *)
(* read and the get is issued *)
CheckStarts(k, tokenCount) ==
    /\ limiter # <<>>
    /\ limiter.checks[k].pc = "idle"
    /\ IF ~limiter.hasStore
       THEN limiter' = Granted([limiter EXCEPT !.checks[k].pc = "done",
                                               !.checks[k].now = limiter.clock,
                                               !.checks[k].tokenCount = tokenCount,
                                               !.checks[k].allowed = TRUE,
                                               !.checks[k].out = "allowed"],
                               limiter.clock)
       ELSE limiter' = [limiter EXCEPT !.checks[k].pc = "get",
                                       !.checks[k].now = limiter.clock,
                                       !.checks[k].tokenCount = tokenCount,
                                       !.overlapped = @ \/ \E j \in Checks : UnderWay(j)]
    /\ UNCHANGED notLimiter

(* Lines 55-81: the get resolves; a denied check returns, an allowed one  *)
(* issues the put *)
GetResolves(k) ==
    /\ limiter # <<>>
    /\ limiter.checks[k].pc = "get"
    /\ LET check == limiter.checks[k]
           result == checkRecord(limiter.entry, check.now, check.tokenCount)
       IN limiter' = [limiter EXCEPT
              !.checks[k].record = <<result.record>>,
              !.checks[k].allowed = result.allowed,
              !.checks[k].pc = IF result.put THEN "put" ELSE "done",
              !.checks[k].out = IF result.put THEN "" ELSE "denied"]
    /\ UNCHANGED notLimiter

(* Lines 84-87: the get rejects, the catch block allows the request *)
GetRejects(k) ==
    /\ limiter # <<>>
    /\ limiter.checks[k].pc = "get"
    /\ limiter' = Granted([limiter EXCEPT !.checks[k].pc = "done",
                                          !.checks[k].allowed = TRUE,
                                          !.checks[k].out = "allowed",
                                          !.failed = TRUE],
                          limiter.checks[k].now)
    /\ UNCHANGED notLimiter

(* Lines 79-83: the put resolves, the record is stored *)
PutResolves(k) ==
    /\ limiter # <<>>
    /\ limiter.checks[k].pc = "put"
    /\ LET check == limiter.checks[k]
           stored == [limiter EXCEPT
                         !.entry = check.record,
                         !.starts = @ \cup {check.record[1].windowStart},
                         !.checks[k].pc = "done",
                         !.checks[k].wrote = TRUE,
                         !.checks[k].out = IF check.allowed THEN "allowed" ELSE "denied"]
       IN limiter' = IF check.allowed THEN Granted(stored, check.now) ELSE stored
    /\ UNCHANGED notLimiter

(* Lines 84-87: the put rejects, the catch block allows the request *)
PutRejects(k) ==
    /\ limiter # <<>>
    /\ limiter.checks[k].pc = "put"
    /\ limiter' = Granted([limiter EXCEPT !.checks[k].pc = "done",
                                          !.checks[k].allowed = TRUE,
                                          !.checks[k].out = "allowed",
                                          !.failed = TRUE],
                          limiter.checks[k].now)
    /\ UNCHANGED notLimiter

(* Date.now() advances *)
ClockTicks ==
    /\ limiter # <<>>
    /\ limiter.clock < MaxClock
    /\ limiter' = [limiter EXCEPT !.clock = @ + 1]
    /\ UNCHANGED notLimiter

LimiterNext ==
    \/ \E k \in Checks, tokenCount \in TokenCounts : CheckStarts(k, tokenCount)
    \/ \E k \in Checks : GetResolves(k)
    \/ \E k \in Checks : GetRejects(k)
    \/ \E k \in Checks : PutResolves(k)
    \/ \E k \in Checks : PutRejects(k)
    \/ ClockTicks

LimiterSpec == LimiterInit /\ [][LimiterNext]_vars

(* The checks allowed at a time within the window that starts at w *)
RECURSIVE SumGrants(_, _)
SumGrants(from, to) ==
    IF from > to THEN 0 ELSE limiter.grants[from] + SumGrants(from + 1, to)

AllowedInWindow(w) ==
    SumGrants(w, IF w + windowMs - 1 > MaxClock THEN MaxClock ELSE w + windowMs - 1)

(* C32: for one client id, at most maxRequests requests are allowed       *)
(* within one window of windowMs counted from the stored windowStart,     *)
(* for any number of requests of the client checked concurrently against  *)
(* the shared store. *)
C32_AtMostMaxRequestsPerWindow ==
    (limiter # <<>> /\ limiter.hasStore) =>
        \A w \in limiter.starts : AllowedInWindow(w) <= maxRequests

(* What does hold: checks made one after the other against a store that   *)
(* does not fail stay within the limit *)
SequentialChecksWithinLimit ==
    (limiter # <<>> /\ limiter.hasStore /\ ~limiter.overlapped /\ ~limiter.failed) =>
        \A w \in limiter.starts : AllowedInWindow(w) <= maxRequests

(* Two checks have read the same record and both were allowed *)
LostUpdate ==
    /\ limiter # <<>>
    /\ ~limiter.failed
    /\ \E w \in limiter.starts : AllowedInWindow(w) > maxRequests


(* The check k has just returned allowed: false *)
DeniedNow(k) ==
    /\ limiter.checks[k].out # "denied"
    /\ limiter'.checks[k].out = "denied"

(* C40: a check that denies a request (request count at the limit, or     *)
(* token budget would be exceeded) writes nothing to the store: the       *)
(* client's stored requestCount, tokenCount and windowStart are unchanged *)
(* by a denied request. *)
C40_DeniedCheckWritesNothing ==
    [][\A k \in Checks :
          (limiter # <<>> /\ DeniedNow(k)) =>
              /\ limiter'.entry = limiter.entry
              /\ ~limiter'.checks[k].wrote
              /\ limiter'.checks[k].pc = "done"]_vars

(* A check found the request count at the limit and was denied; the     *)
(* record it read is still the stored one *)
C40_Witness ==
    /\ limiter # <<>>
    /\ \E k \in Checks :
          /\ limiter.checks[k].out = "denied"
          /\ ~limiter.checks[k].wrote
          /\ limiter.checks[k].record[1].requestCount >= maxRequests
          /\ limiter.entry = limiter.checks[k].record

-----------------------------------------------------------------------------
(* The delta events of the relay *)

(* The delta events written so far *)
DeltasWritten ==
    IF relay = <<>> THEN {}
    ELSE {relay.log[i].ev : i \in {j \in DOMAIN relay.log :
             /\ relay.log[j].op = "write"
             /\ relay.log[j].ev.type = Delta(relay.protocol, <<>>).type
             /\ relay.log[j].ev.finish = Delta(relay.protocol, <<>>).finish}}

(* C33: a streaming relay emits one delta event per non-empty decoded     *)
(* string and none otherwise: no delta event of any of the three          *)
(* protocols carries an empty string, including when an upstream read     *)
(* holds only part of a multi-byte character. *)
C33_NoEmptyDelta == \A ev \in DeltasWritten : ev.text # <<>>

(* What does hold: the Responses and Anthropic relays write no empty delta *)
NoEmptyDeltaWhereSkipped ==
    (relay # <<>> /\ relay.protocol \in {"responses", "anthropic"}) =>
        \A ev \in DeltasWritten : ev.text # <<>>

(* The chat relay wrote a delta with empty content *)
EmptyChatDelta ==
    /\ relay # <<>>
    /\ relay.protocol = "chat"
    /\ \E ev \in DeltasWritten : ev.text = <<>>


(* The writes of the completion events of the Responses relay that carry  *)
(* the text *)
TextDoneTypes == {"response.output_text.done", "response.content_part.done",
                  "response.output_item.done", "response.done"}

TextDoneWrites ==
    {k \in DOMAIN relay.log : /\ relay.log[k].op = "write"
                              /\ relay.log[k].ev.type \in TextDoneTypes}

(* C34: in the Responses API relay, the text carried by                   *)
(* response.output_text.done, response.content_part.done,                 *)
(* response.output_item.done and response.done equals the concatenation,  *)
(* in emission order, of the delta fields of all                          *)
(* response.output_text.delta events emitted before them, and the final   *)
(* usage has total_tokens = input_tokens + output_tokens. *)
C34_DoneTextIsSumOfDeltas ==
    (relay # <<>> /\ relay.protocol = "responses") =>
        \A k \in TextDoneWrites :
            /\ relay.log[k].ev.text = DeltaText(SubSeq(relay.log, 1, k - 1))
            /\ relay.log[k].ev.type = "response.done" =>
                  /\ "usage" \in DOMAIN relay.log[k].ev
                  /\ relay.log[k].ev.usage.total_tokens =
                        relay.log[k].ev.usage.input_tokens
                        + relay.log[k].ev.usage.output_tokens

(* response.done was written after two deltas, the first of which ended   *)
(* a multi-byte character *)
C34_Witness ==
    /\ relay # <<>>
    /\ relay.protocol = "responses"
    /\ \E k \in TextDoneWrites :
          /\ relay.log[k].ev.type = "response.done"
          /\ relay.log[k].ev.text = <<8364, 65>>
          /\ relay.log[k].ev.usage.total_tokens = 5
          /\ Cardinality({j \in 1..k : relay.log[j].op = "write"
                                       /\ Rank(relay.log[j].ev) = 2}) = 2

-----------------------------------------------------------------------------
(* OneMinApiService.buildStreamingChatRequestBody (onemin-api.ts 246-321) *)
(* next to buildChatRequestBody.  The two builders are called with the    *)
(* same arguments; the image downloads and uploads of the streaming       *)
(* builder end as those of buildChatRequestBody did, call by call.        *)
(* fncall.run is the call of the streaming builder, a record like build. *)

(* Mutant: the web-search fields are left out of the image payload *)
StreamingChatRequestBodyNoWebSearch(b) ==
    LET formattedHistory == formatConversationHistory(b.messages, "")
        config == b.webSearchConfig
    IN IF b.hasImageRequests /\ b.allImagesUploaded /\ Len(b.imagePaths) > 0
       THEN [type |-> "CHAT_WITH_IMAGE", model |-> b.model,
             promptObject |-> [prompt |-> formattedHistory, isMixed |-> FALSE,
                               imageList |-> b.imagePaths]]
       ELSE [type |-> "CHAT_WITH_AI", model |-> b.model,
             promptObject |->
                IF config # Undefined /\ config.webSearch
                THEN [prompt |-> formattedHistory, isMixed |-> FALSE,
                      webSearch |-> config.webSearch,
                      numOfSite |-> config.numOfSite, maxWord |-> config.maxWord]
                ELSE [prompt |-> formattedHistory, isMixed |-> FALSE,
                      webSearch |-> IF config # Undefined THEN config.webSearch ELSE FALSE]]

(* buildStreamingChatRequestBody, lines 278-320 *)
StreamingChatRequestBody(b) ==
    LET formattedHistory == formatConversationHistory(b.messages, "")
        config == b.webSearchConfig
    IN IF b.hasImageRequests /\ b.allImagesUploaded /\ Len(b.imagePaths) > 0
       THEN [type |-> "CHAT_WITH_IMAGE", model |-> b.model,
             promptObject |->
                IF config # Undefined
                THEN [prompt |-> formattedHistory, isMixed |-> FALSE,
                      imageList |-> b.imagePaths, webSearch |-> config.webSearch,
                      numOfSite |-> config.numOfSite, maxWord |-> config.maxWord]
                ELSE [prompt |-> formattedHistory, isMixed |-> FALSE,
                      imageList |-> b.imagePaths]]
       ELSE [type |-> "CHAT_WITH_AI", model |-> b.model,
             promptObject |->
                IF config # Undefined /\ config.webSearch
                THEN [prompt |-> formattedHistory, isMixed |-> FALSE,
                      webSearch |-> config.webSearch,
                      numOfSite |-> config.numOfSite, maxWord |-> config.maxWord]
                ELSE [prompt |-> formattedHistory, isMixed |-> FALSE,
                      webSearch |-> IF config # Undefined THEN config.webSearch ELSE FALSE]]

(* buildStreamingChatRequestBody, lines 253-320: the loop from image part *)
(* i on, up to its next await or to the return *)
StreamingLoopFrom(b, i) ==
    IF i > Len(ImageParts(b.messages))
    THEN [b EXCEPT !.pc = "send", !.i = i,
                   !.out = BuildReturned(StreamingChatRequestBody(b))]
    ELSE IF ~isVisionSupportedModel(b.model)
    THEN [b EXCEPT !.pc = "done", !.i = i, !.hasImageRequests = TRUE,
                   !.out = BuildThrown(DoesNotSupportImages(b.model))]
    ELSE [b EXCEPT !.pc = "download", !.i = i, !.hasImageRequests = TRUE,
                   !.net = Append(@, NetCall("processImageUrl", ImageParts(b.messages)[i]))]

(* buildStreamingChatRequestBody, lines 268-272: the catch block *)
StreamingCatchImageError(b) ==
    StreamingLoopFrom([b EXCEPT !.allImagesUploaded = FALSE], b.i + 1)

TwinInit ==
    /\ build \in [pc : {"call"}, messages : Batches, model : Models,
                  webSearchConfig : WebSearchConfigs,
                  registry : {Snapshot(Models, Models)},
                  i : {0}, imagePaths : {<<>>}, hasImageRequests : {FALSE},
                  allImagesUploaded : {TRUE}, net : {<<>>}, error : {<<>>},
                  out : {NoPayload}]
    /\ fncall = [fn |-> "buildStreamingChatRequestBody", run |-> build]
    /\ RegAtRest /\ LimiterAtRest /\ PmAtRest /\ SendAtRest /\ DecAtRest /\ RelayAtRest

(* buildStreamingChatRequestBody is called *)
StreamingBuildCall ==
    /\ fncall.fn = "buildStreamingChatRequestBody"
    /\ fncall.run.pc = "call"
    /\ fncall' = [fncall EXCEPT !.run = StreamingLoopFrom(@, 1)]
    /\ UNCHANGED notCall

(* The network call the streaming builder awaits settles as the call of   *)
(* the same rank of buildChatRequestBody did *)
StreamingSettles ==
    /\ fncall.fn = "buildStreamingChatRequestBody"
    /\ fncall.run.pc \in {"download", "upload"}
    /\ LET s == fncall.run
           k == Len(s.net)
       IN /\ k <= Len(build.net)
          /\ build.net[k].outcome \in {"resolved", "rejected"}
          /\ LET settled == [s EXCEPT !.net = Settle(@, build.net[k].outcome)]
             IN fncall' = [fncall EXCEPT !.run =
                   IF build.net[k].outcome = "rejected"
                   THEN StreamingCatchImageError(settled)
                   ELSE IF s.pc = "download"
                   THEN [settled EXCEPT !.pc = "upload",
                            !.net = Append(@, NetCall("uploadImageToAsset",
                                                      ImageParts(s.messages)[s.i]))]
                   ELSE StreamingLoopFrom(
                           [settled EXCEPT !.imagePaths =
                               Append(@, AssetPath(ImageParts(s.messages)[s.i]))],
                           s.i + 1)]
    /\ UNCHANGED notCall

TwinNext ==
    \/ BuildCall
    \/ DownloadResolves
    \/ DownloadRejects
    \/ UploadResolves
    \/ UploadRejects
    \/ StreamingBuildCall
    \/ StreamingSettles

TwinSpec == TwinInit /\ [][TwinNext]_vars

BothBuilt ==
    /\ fncall # <<>>
    /\ fncall.fn = "buildStreamingChatRequestBody"
    /\ build.pc \in {"send", "done"}
    /\ fncall.run.pc \in {"send", "done"}

(* C35: buildChatRequestBody and buildStreamingChatRequestBody have an    *)
(* identical contract: for the same messages, model, web-search config    *)
(* and the same outcomes of the image downloads and uploads, they perform *)
(* the same sequence of image operations and return equal payloads, or    *)
(* both raise the same error. *)
C35_BuildersAgree ==
    (fncall # <<>> /\ fncall.fn = "buildStreamingChatRequestBody") =>
        /\ \A k \in 1..Len(fncall.run.net) :
              /\ k <= Len(build.net) \/ build.pc = "call"
              /\ k <= Len(build.net) =>
                    /\ fncall.run.net[k].call = build.net[k].call
                    /\ fncall.run.net[k].url = build.net[k].url
        /\ BothBuilt =>
              /\ fncall.run.net = build.net
              /\ fncall.run.out = build.out

(* Both builders have returned an image payload with the web-search       *)
(* fields after two images were uploaded *)
C35_Witness ==
    /\ BothBuilt
    /\ build.out.kind = "returned"
    /\ build.out.body.type = "CHAT_WITH_IMAGE"
    /\ "webSearch" \in DOMAIN fncall.run.out.body.promptObject
    /\ Len(fncall.run.out.body.promptObject.imageList) = 2

-----------------------------------------------------------------------------
(* The in-flight guard, the snapshot in memory and the snapshots returned *)

(* The fetch p settles in this step *)
SettlesNow(p) ==
    /\ fetches[p].stage = "fetching"
    /\ fetches'[p].stage = "settled"

(* The caller c goes past tiers 1 and 2 in this step *)
ReachesTierThree(c) ==
    /\ callers[c].pc \in {"idle", "kvget"}
    /\ callers'[c].tier = 3

(* C36: the in-flight fetch guard is always released when its fetch       *)
(* settles, whether by success, stale fallback or error: after settlement *)
(* no caller is handed the settled fetch, and a later getModelData call   *)
(* that misses tiers 1-2 starts a new upstream fetch. *)
C36_GuardReleasedOnSettlement ==
    [][/\ \A p \in 1..Len(fetches) : SettlesNow(p) => inflight' = 0
       /\ inflight' # 0 =>
             /\ inflight' \in 1..Len(fetches')
             /\ fetches'[inflight'].stage = "fetching"
       /\ \A c \in Callers :
             ReachesTierThree(c) =>
                /\ fetches'[callers'[c].p].stage = "fetching"
                /\ inflight = 0 =>
                      /\ Len(fetches') = Len(fetches) + 1
                      /\ callers'[c].p = Len(fetches')
                      /\ callers'[c].started
                      /\ inflight' = callers'[c].p]_vars

(* After a fetch ended with the 503 error, a later call started a second  *)
(* fetch *)
C36_Witness ==
    /\ Len(fetches) = 2
    /\ fetches[1].stage = "settled"
    /\ fetches[1].outcome = ApiError(503)
    /\ inflight = 2
    /\ \E c \in Callers : callers[c].started /\ callers[c].p = 2

(* The call of c fails in this step *)
FailsNow(c) ==
    /\ callers[c].result.kind # "error"
    /\ callers'[c].result.kind = "error"

(* C37: once the in-memory snapshot has been set by a successful fetch or *)
(* an external-cache hit it is never reset to absent, so from then on no  *)
(* getModelData call in that process fails with the 503                   *)
(* upstream-unavailable error, whatever sequence of upstream failures and *)
(* expiries follows. *)
C37_SnapshotKeptNo503 ==
    [][/\ memoryCache # Null => memoryCache' # Null
       /\ \A c \in Callers :
             FailsNow(c) => memoryCache = Null /\ memoryCache' = Null]_vars

(* A call was answered with the stale snapshot after its fetch failed,    *)
(* while the entry of the store was gone *)
C37_Witness ==
    /\ memoryCache # Null
    /\ ~kv.present
    /\ \E c \in Callers :
          /\ callers[c].pc = "done"
          /\ callers[c].tier = 3
          /\ callers[c].result.kind = "ok"
          /\ fetches[callers[c].p].stale

SnapshotLists == {"chatModelIds", "imageModelIds", "visionModelIds",
                  "codeInterpreterModelIds"}

(* The snapshots the calls have returned *)
ReturnedSnapshots ==
    {callers[c].result.value : c \in {d \in Callers : callers[d].result.kind = "ok"}}

(* C38: every snapshot that getModelData returns, from any of the three   *)
(* tiers, contains all of chatModelIds, imageModelIds, visionModelIds and *)
(* codeInterpreterModelIds as lists, so that isVisionModel,               *)
(* isCodeInterpreterModel and the vision check of                         *)
(* validateModelAndMessages never fail on a returned snapshot. *)
C38_ReturnedSnapshotComplete ==
    \A data \in ReturnedSnapshots : \A k \in SnapshotLists : IsArrayField(data, k)

(* What does hold: a returned snapshot has the two lists that             *)
(* isValidCachedData looks at, and the snapshot of a fetch has all four *)
ReturnedSnapshotHasCheckedLists ==
    /\ \A data \in ReturnedSnapshots :
          IsArrayField(data, "chatModelIds") /\ IsArrayField(data, "imageModelIds")
    /\ \A p \in 1..Len(fetches) :
          (fetches[p].stage = "settled" /\ fetches[p].outcome.kind = "ok"
             /\ ~fetches[p].stale) =>
              \A k \in SnapshotLists : IsArrayField(fetches[p].outcome.value, k)

-----------------------------------------------------------------------------
(* The clean name of a valid result *)

(* C39: for every input string, whenever parseModelName returns           *)
(* isValid=true its originalModel is non-empty, and whenever              *)
(* parseAndGetConfig returns no error its cleanModel is non-empty. *)
C39_ValidNameNotEmpty ==
    (ParseReturned /\ IsString(fncall.modelName)) =>
        /\ fncall.out.isValid => fncall.out.originalModel # <<>>
        /\ LET config == parseAndGetConfig(fncall.modelName, Undefined)
           IN "error" \notin DOMAIN config => config.cleanModel # <<>>

(* What does hold: it is so for every name that has a character other     *)
(* than white space, and an empty clean name comes from a name of white   *)
(* space alone *)
ValidNameNotEmptyUnlessBlank ==
    (ParseReturned /\ IsString(fncall.modelName)) =>
        LET config == parseAndGetConfig(fncall.modelName, Undefined)
            blank == fncall.modelName.s # <<>> /\ trim(fncall.modelName.s) = <<>>
        IN /\ (fncall.out.isValid /\ fncall.out.originalModel = <<>>) <=> blank
           /\ ("error" \notin DOMAIN config /\ config.cleanModel = <<>>) <=> blank

(* A name of one space was parsed as valid *)
BlankNameValid ==
    /\ ParseReturned
    /\ fncall.modelName = Str(<<" ">>)
    /\ fncall.out.isValid
    /\ fncall.out.originalModel = <<>>

=============================================================================
